---- MODULE Spec2Model ----
(***************************************************************************)
(* State-machine model of the GPU index pipeline of this repository:       *)
(*   - gpu_index_calculator.py  (aggregator + historical consistency guard)*)
(*   - push_to_contract.py      (multi-asset oracle publisher, batch)      *)
(*   - push_h100_individual_prices.py (provider oracle publisher)          *)
(*                                                                         *)
(* Numbers.  Python floats are modelled by integers: a USD price is an     *)
(* integer count of 1/PriceUnit USD, float('nan') is the value NaN, and a  *)
(* float division is the integer division rounded down.  The on-chain      *)
(* fixed-point price int(price * 10**decimals) is price * ScalePerUnit.    *)
(***************************************************************************)
EXTENDS Integers, Sequences, FiniteSets, TLC

(***************************************************************************)
(* Bounds of the model.                                                    *)
(***************************************************************************)
\* price units per USD (the resolution of the modelled floats)
PriceUnit == 100
\* on-chain fixed-point units per price unit (stands for 10**18 / PriceUnit)
ScalePerUnit == 10

(***************************************************************************)
(* Values.                                                                 *)
(***************************************************************************)
\* float('nan'): every comparison with it is false
NaN == -1000000
\* a CSV cell that float() rejects (empty or non-numeric text)
NonNumeric == -1000001
\* no transaction hash bound yet (tx_hash unassigned)
NoTx == 0

IsNaN(x) == x = NaN

\* python: a <= b, a > b on floats (false when either side is NaN)
FloatLe(a, b) == ~IsNaN(a) /\ ~IsNaN(b) /\ a <= b
FloatGt(a, b) == ~IsNaN(a) /\ ~IsNaN(b) /\ a > b

Usd(n) == n * PriceUnit

(***************************************************************************)
(* push_to_contract.py: configuration.                                     *)
(***************************************************************************)
ASSET_IDS == <<"H100_HOURLY", "H100_HYPERSCALERS_HOURLY", "H100_NON_HYPERSCALERS_HOURLY">>

H100_ASSET_IDS == <<"AWS_H100_HOURLY", "AZURE_H100_HOURLY", "GCP_H100_HOURLY">>

AllAssets == {ASSET_IDS[i] : i \in 1..3} \cup {H100_ASSET_IDS[i] : i \in 1..3}

\* the required price columns of h100_gpu_index.csv, in asset order
required_columns == <<"Full_Index_Price", "Hyperscalers_Only_Price", "Non_Hyperscalers_Only_Price">>

\* "price > 100" in the validation loops of both publishers
SANE_MAX_USD == 100

\* default_price = 3.79 in main (registration)
default_price == (379 * PriceUnit) \div 100

\* logs = logs[-100:]
LOG_CAP == 100

\* mutant: int(price_usd) * (10 ** self.decimals)
PriceScaled_TruncFirst(p) == (p \div PriceUnit) * PriceUnit * ScalePerUnit

\* int(price_usd * (10 ** self.decimals))
PriceScaled(p) == p * ScalePerUnit

(***************************************************************************)
(* State.                                                                  *)
(***************************************************************************)
VARIABLES
    prog,         \* the script that runs: "push_to_contract" | "push_h100_individual_prices"
    pc,           \* position of the script
    exit_code,    \* Running until the process exits, then its exit status
    args,         \* parsed command line
    PRIVATE_KEY,  \* TRUE iff the signing key is configured in the environment
    csv_file,     \* h100_gpu_index.csv: Missing, or its sequence of rows (column -> cell)
    registered,   \* ledger: asset -> registered
    onchain,      \* ledger: asset -> stored raw price
    txs,          \* ledger: transactions submitted, in order; a tx hash is its index
    prices,       \* main: asset -> price_usd (empty before the price source is read)
    updates,      \* push_h100_individual_prices.main: the list of PriceUpdate
    idx,          \* loop position (register loop, update loop)
    call,         \* the caller of the running _send_transaction
    tx_hash,      \* main: tx_hash
    log,          \* the JSON audit log file of the running script (a list of entries)
    df,           \* gpu_index_calculator: the module-level provider table
    history,      \* gpu_index_history.csv: the rows of the History Store
    marker,       \* TRUE iff the file .price_change_triggered exists
    GITHUB_ACTIONS, \* TRUE iff the environment has GITHUB_ACTIONS == 'true'
    g,            \* gpu_index_calculator.__main__: its local variables
    invocations,  \* number of calls of calculate_weighted_index in this run
    trigger_commits, \* number of trigger commits pushed
    runs,         \* number of runs of gpu_index_calculator.py started
    history_before, \* the History Store as the running guard found it
    corrected_history, \* corrected_gpu_index_history.csv
    provider_averages, \* provider_averages.csv: the provider table on disk
    pusher        \* autorun.py: the counters of push_to_database and the requests sent

pubVars == <<prog, pc, exit_code, args, PRIVATE_KEY, csv_file, registered, onchain,
             txs, prices, updates, idx, call, tx_hash, log>>

\* the runs made so far and the files of recalculate_historical_index.py
storeVars == <<runs, history_before, corrected_history, provider_averages, pusher>>

guardVars == <<df, history, marker, GITHUB_ACTIONS, g, invocations, trigger_commits,
               storeVars>>

vars == <<pubVars, guardVars>>

Running == -1
\* an omitted command-line option (argparse default None)
None == -1000002

Last(s) == s[Len(s)]

\* autorun.py before push_to_database is called: no counter is assigned and no
\* request was sent to any market
NoPusher ==
    [success_count |-> None, failed_count |-> None, attempt |-> None,
     posts |-> [m \in {"H100_HOURLY", "H100_HYPERSCALERS_HOURLY",
                       "H100_NON_HYPERSCALERS_HOURLY"} |-> <<>>]]

Range(s) == {s[i] : i \in 1..Len(s)}

\* sys.exit(code)
Exit(code) == pc' = "exit" /\ exit_code' = code

(***************************************************************************)
(* The ledger (MultiAssetOracle).  Its code is outside the repository; the *)
(* ABI declares registerAsset, updatePrice and batchUpdatePrices.  A       *)
(* submitted transaction is pending until it is mined; mined, it either    *)
(* succeeded (receipt status 1, its writes applied) or reverted (receipt   *)
(* status 0, no write applied).                                            *)
(***************************************************************************)
Tx(func, assets, values) ==
    [func |-> func, assets |-> assets, values |-> values, status |-> "pending"]

Mined(t) == t.status \in {"success", "reverted"}

\* the stored price of asset a after transaction t succeeded
ApplyTx(t, a, old) ==
    IF \E i \in 1..Len(t.assets) : t.assets[i] = a
    THEN t.values[CHOOSE i \in 1..Len(t.assets) : t.assets[i] = a]
    ELSE old

LedgerMine ==
    \E i \in 1..Len(txs) : \E ok \in BOOLEAN :
        /\ txs[i].status = "pending"
        /\ txs' = [txs EXCEPT ![i].status = IF ok THEN "success" ELSE "reverted"]
        /\ onchain' = IF ok THEN [a \in AllAssets |-> ApplyTx(txs[i], a, onchain[a])]
                            ELSE onchain
        /\ registered' = IF ok /\ txs[i].func = "registerAsset"
                         THEN [a \in AllAssets |-> registered[a] \/ a \in Range(txs[i].assets)]
                         ELSE registered
        /\ UNCHANGED <<prog, pc, exit_code, args, PRIVATE_KEY, csv_file, prices,
                       updates, idx, call, tx_hash, log>>
        /\ UNCHANGED guardVars

\* w3.eth.block_number as the number of mined transactions
block_number == Cardinality({i \in 1..Len(txs) : Mined(txs[i])})

(***************************************************************************)
(* _send_transaction (both publishers have the same code).                 *)
(***************************************************************************)
\* mutant: an exception of a price transaction re-enters _send_transaction
Raise_Retry ==
    IF call.caller = "register_asset"
    THEN pc' = "register" /\ idx' = idx + 1 /\ UNCHANGED exit_code
    ELSE pc' = "send" /\ UNCHANGED <<exit_code, idx>>

\* where an exception raised inside _send_transaction lands: the register
\* loop of push_to_contract.main catches it per asset, the update code of
\* both mains catches it around the whole update and exits 1
Raise ==
    IF call.caller = "register_asset"
    THEN pc' = "register" /\ idx' = idx + 1 /\ UNCHANGED exit_code
    ELSE Exit(1) /\ UNCHANGED idx

\* build_transaction .. send_raw_transaction: a network error raises before
\* the transaction is submitted, otherwise the transaction is submitted
SendRawTransaction ==
    /\ pc = "send"
    /\ \E sent \in BOOLEAN :
        IF sent
        THEN /\ txs' = Append(txs, Tx(call.func, call.assets, call.values))
             /\ pc' = "wait"
             /\ UNCHANGED <<exit_code, idx>>
        ELSE Raise /\ UNCHANGED txs
    /\ UNCHANGED <<prog, args, PRIVATE_KEY, csv_file, registered, onchain, prices,
                   updates, call, tx_hash, log>>
    /\ UNCHANGED guardVars

\* mutant: _send_transaction returns after send_raw_transaction, without waiting
ReceiptReady_NoWait(t) == TRUE

\* wait_for_transaction_receipt returns the receipt of a mined transaction
ReceiptReady(t) == Mined(t)

\* wait_for_transaction_receipt(tx_hash, timeout=180): the receipt of the mined
\* transaction is returned whatever its status; TimeExhausted is raised while
\* the transaction is still pending
WaitForReceipt ==
    /\ pc = "wait"
    /\ IF ReceiptReady(Last(txs))
       THEN CASE call.caller = "register_asset" ->
                   pc' = "register" /\ idx' = idx + 1 /\ UNCHANGED <<exit_code, tx_hash>>
              [] call.caller = "batch_update_prices" ->
                   pc' = "log" /\ tx_hash' = Len(txs) /\ UNCHANGED <<exit_code, idx>>
              [] call.caller = "update_single_price" ->
                   pc' = "update" /\ tx_hash' = Len(txs) /\ idx' = idx + 1
                   /\ UNCHANGED exit_code
       ELSE Raise /\ UNCHANGED tx_hash
    /\ UNCHANGED <<prog, args, PRIVATE_KEY, csv_file, registered, onchain, txs, prices,
                   updates, call, log>>
    /\ UNCHANGED guardVars

(***************************************************************************)
(* push_to_contract.py                                                     *)
(***************************************************************************)
AssetIndex(a) == CHOOSE i \in 1..3 : ASSET_IDS[i] = a

\* the prices dict built from three floats, keyed by asset in ASSET_IDS order
PricesDict(t) == [a \in Range(ASSET_IDS) |-> t[AssetIndex(a)]]

\* the value None of Optional[Dict[str, float]]
NoPrices == [a \in {} |-> 0]

\* mutant: a missing column or a non-numeric cell falls back to the default price
read_prices_from_csv_Lenient(f) ==
    IF ~f.exists THEN NoPrices
    ELSE IF Len(f.rows) = 0 THEN NoPrices
    ELSE LET latest == Last(f.rows) IN
         [a \in Range(ASSET_IDS) |->
             LET col == required_columns[AssetIndex(a)] IN
             IF col \notin DOMAIN latest THEN default_price
             ELSE IF latest[col] = NonNumeric THEN default_price
             ELSE latest[col]]

\* MultiAssetOraclePriceUpdater.read_prices_from_csv
read_prices_from_csv(f) ==
    IF ~f.exists THEN NoPrices
    ELSE IF Len(f.rows) = 0 THEN NoPrices
    ELSE LET latest == Last(f.rows) IN
         IF \E i \in 1..3 : required_columns[i] \notin DOMAIN latest THEN NoPrices
         ELSE IF \E i \in 1..3 : latest[required_columns[i]] = NonNumeric THEN NoPrices
         ELSE [a \in Range(ASSET_IDS) |-> latest[required_columns[AssetIndex(a)]]]

\* read_csv_prices_standalone (the dry-run reader)
read_csv_prices_standalone(f) ==
    IF ~f.exists THEN NoPrices
    ELSE IF Len(f.rows) = 0 THEN NoPrices
    ELSE LET latest == Last(f.rows) IN
         IF \E i \in 1..3 : required_columns[i] \notin DOMAIN latest THEN NoPrices
         ELSE IF \E i \in 1..3 : latest[required_columns[i]] = NonNumeric THEN NoPrices
         ELSE [a \in Range(ASSET_IDS) |-> latest[required_columns[AssetIndex(a)]]]

\* mutant: "logs = logs[:100]", the oldest entries are kept
AppendCapped_KeepOldest(logs, entry) ==
    LET all == Append(logs, entry) IN
    IF Len(all) <= LOG_CAP THEN all
    ELSE SubSeq(all, 1, LOG_CAP)

\* logs.append(log_entry); logs = logs[-100:]
AppendCapped(logs, entry) ==
    LET all == Append(logs, entry) IN
    IF Len(all) <= LOG_CAP THEN all
    ELSE SubSeq(all, Len(all) - LOG_CAP + 1, Len(all))

\* main: "Validate environment" and "Initialize oracle updater"
PTC_Initialize ==
    /\ prog = "push_to_contract" /\ pc = "main"
    /\ IF ~PRIVATE_KEY /\ ~args.dry_run THEN Exit(1)
       ELSE IF args.dry_run THEN pc' = "register" /\ UNCHANGED exit_code
       ELSE \E connected \in BOOLEAN :
                IF connected THEN pc' = "register" /\ UNCHANGED exit_code ELSE Exit(1)
    /\ UNCHANGED <<prog, args, PRIVATE_KEY, csv_file, registered, onchain, txs, prices,
                   updates, idx, call, tx_hash, log>>
    /\ UNCHANGED guardVars

\* main: "Register assets if requested"; is_asset_registered answers False
\* when its call fails
PTC_Register ==
    /\ prog = "push_to_contract" /\ pc = "register"
    /\ IF args.register /\ ~args.dry_run /\ idx <= Len(ASSET_IDS)
       THEN \E is_registered \in {registered[ASSET_IDS[idx]], FALSE} :
              IF is_registered
              THEN idx' = idx + 1 /\ UNCHANGED <<pc, call>>
              ELSE /\ call' = [caller |-> "register_asset", func |-> "registerAsset",
                               assets |-> <<ASSET_IDS[idx]>>,
                               values |-> <<PriceScaled(default_price)>>]
                   /\ pc' = "send"
                   /\ UNCHANGED idx
       ELSE pc' = "prices" /\ UNCHANGED <<idx, call>>
    /\ UNCHANGED <<prog, exit_code, args, PRIVATE_KEY, csv_file, registered, onchain, txs,
                   prices, updates, tx_hash, log>>
    /\ UNCHANGED guardVars

\* main: "Determine price source"
PTC_DeterminePrices ==
    /\ prog = "push_to_contract" /\ pc = "prices"
    /\ LET p == IF Len(args.manual_prices) > 0 THEN PricesDict(args.manual_prices)
                ELSE IF args.dry_run THEN read_csv_prices_standalone(csv_file)
                ELSE read_prices_from_csv(csv_file)
       IN /\ prices' = p
          /\ IF DOMAIN p = {} THEN Exit(1) ELSE pc' = "validate" /\ UNCHANGED exit_code
    /\ UNCHANGED <<prog, args, PRIVATE_KEY, csv_file, registered, onchain, txs,
                   updates, idx, call, tx_hash, log>>
    /\ UNCHANGED guardVars

\* mutant: "if price < 0"
PTC_PriceRejected_Strict(price) == ~IsNaN(price) /\ price < 0

\* main: "Validate prices": price <= 0 exits 1; price > 100 only prints a warning
PTC_PriceRejected(price) == FloatLe(price, 0)

PTC_ValidatePrices ==
    /\ prog = "push_to_contract" /\ pc = "validate"
    /\ IF \E a \in DOMAIN prices : PTC_PriceRejected(prices[a])
       THEN Exit(1)
       ELSE pc' = "execute" /\ UNCHANGED exit_code
    /\ UNCHANGED <<prog, args, PRIVATE_KEY, csv_file, registered, onchain, txs, prices,
                   updates, idx, call, tx_hash, log>>
    /\ UNCHANGED guardVars

\* batch_update_prices: price_values
PTC_PriceValues(p) == [i \in 1..3 |-> PriceScaled(p[ASSET_IDS[i]])]

\* mutant: the dry run does not exit before batch_update_prices
PTC_Execute_DryRunSubmits ==
    /\ prog = "push_to_contract" /\ pc = "execute"
    /\ IF \E a \in DOMAIN prices : IsNaN(prices[a]) THEN Exit(1) /\ UNCHANGED call
       ELSE /\ call' = [caller |-> "batch_update_prices", func |-> "batchUpdatePrices",
                        assets |-> ASSET_IDS, values |-> PTC_PriceValues(prices)]
            /\ pc' = "send"
            /\ UNCHANGED exit_code
    /\ UNCHANGED <<prog, args, PRIVATE_KEY, csv_file, registered, onchain, txs, prices,
                   updates, idx, tx_hash, log>>
    /\ UNCHANGED guardVars

\* main: "Execute blockchain update": the dry run exits 0; batch_update_prices
\* scales the prices (int(nan) raises ValueError, caught by main) and calls
\* _send_transaction
PTC_Execute ==
    /\ prog = "push_to_contract" /\ pc = "execute"
    /\ IF args.dry_run THEN Exit(0) /\ UNCHANGED call
       ELSE IF \E a \in DOMAIN prices : IsNaN(prices[a]) THEN Exit(1) /\ UNCHANGED call
       ELSE /\ call' = [caller |-> "batch_update_prices", func |-> "batchUpdatePrices",
                        assets |-> ASSET_IDS, values |-> PTC_PriceValues(prices)]
            /\ pc' = "send"
            /\ UNCHANGED exit_code
    /\ UNCHANGED <<prog, args, PRIVATE_KEY, csv_file, registered, onchain, txs, prices,
                   updates, idx, tx_hash, log>>
    /\ UNCHANGED guardVars

\* main: after batch_update_prices returned: block_number is read (the call can
\* raise), log_update appends the entry (a failed write is only printed), exit 0
PTC_LogUpdate ==
    /\ prog = "push_to_contract" /\ pc = "log"
    /\ \E rpc_ok \in BOOLEAN, write_ok \in BOOLEAN :
        IF ~rpc_ok THEN Exit(1) /\ UNCHANGED log
        ELSE /\ log' = IF write_ok
                       THEN AppendCapped(log, [prices |-> prices, tx_hash |-> tx_hash,
                                               block_number |-> block_number])
                       ELSE log
             /\ Exit(0)
    /\ UNCHANGED <<prog, args, PRIVATE_KEY, csv_file, registered, onchain, txs, prices,
                   updates, idx, call, tx_hash>>
    /\ UNCHANGED guardVars

(***************************************************************************)
(* push_h100_individual_prices.py                                          *)
(***************************************************************************)
\* the option values --aws, --azure, --gcp in H100_ASSET_IDS order
IND_Options(a) == <<a.aws, a.azure, a.gcp>>

\* "if args.aws:" (None and 0.0 are falsy, nan is truthy)
Truthy(v) == v # None /\ v # 0

\* PriceUpdate(asset_name, asset_id, price_usd, price_scaled)
PriceUpdate(i, v) ==
    [asset_name |-> H100_ASSET_IDS[i], price_usd |-> v, price_scaled |-> PriceScaled(v)]

\* main: private key, updater construction, show_current_prices, --show
IND_Initialize ==
    /\ prog = "push_h100_individual_prices" /\ pc = "main"
    /\ IF ~PRIVATE_KEY THEN Exit(1)
       ELSE \E connected \in BOOLEAN :
                IF ~connected THEN Exit(1)
                ELSE IF args.show THEN Exit(0)
                ELSE pc' = "build" /\ UNCHANGED exit_code
    /\ UNCHANGED <<prog, args, PRIVATE_KEY, csv_file, registered, onchain, txs, prices,
                   updates, idx, call, tx_hash, log>>
    /\ UNCHANGED guardVars

\* main: "Build update list": int(nan * 10**18) raises ValueError outside any
\* try (the process dies with status 1); no update at all exits 1
IND_BuildUpdates ==
    /\ prog = "push_h100_individual_prices" /\ pc = "build"
    /\ LET opts == IND_Options(args)
           chosen == SelectSeq(<<1, 2, 3>>, LAMBDA i : Truthy(opts[i]))
       IN IF \E i \in 1..3 : IsNaN(opts[i])
          THEN Exit(1) /\ UNCHANGED updates
          ELSE /\ updates' = [k \in 1..Len(chosen) |-> PriceUpdate(chosen[k], opts[chosen[k]])]
               /\ IF Len(chosen) = 0 THEN Exit(1)
                  ELSE pc' = "validate" /\ UNCHANGED exit_code
    /\ UNCHANGED <<prog, args, PRIVATE_KEY, csv_file, registered, onchain, txs, prices,
                   idx, call, tx_hash, log>>
    /\ UNCHANGED guardVars

\* main: "Validate prices": price_usd <= 0 exits 1; price_usd > 100 only warns
IND_PriceRejected(price) == FloatLe(price, 0)

IND_ValidatePrices ==
    /\ prog = "push_h100_individual_prices" /\ pc = "validate"
    /\ IF \E k \in 1..Len(updates) : IND_PriceRejected(updates[k].price_usd)
       THEN Exit(1)
       ELSE pc' = "update" /\ UNCHANGED exit_code
    /\ UNCHANGED <<prog, args, PRIVATE_KEY, csv_file, registered, onchain, txs, prices,
                   updates, idx, call, tx_hash, log>>
    /\ UNCHANGED guardVars

\* main: "Execute updates": one batch transaction (--batch and several
\* updates), otherwise update_single_price for each update in turn
IND_Execute ==
    /\ prog = "push_h100_individual_prices" /\ pc = "update"
    /\ IF args.batch /\ Len(updates) > 1
       THEN /\ call' = [caller |-> "batch_update_prices", func |-> "batchUpdatePrices",
                        assets |-> [k \in 1..Len(updates) |-> updates[k].asset_name],
                        values |-> [k \in 1..Len(updates) |-> updates[k].price_scaled]]
            /\ pc' = "send"
       ELSE IF idx <= Len(updates)
       THEN /\ call' = [caller |-> "update_single_price", func |-> "updatePrice",
                        assets |-> <<updates[idx].asset_name>>,
                        values |-> <<updates[idx].price_scaled>>]
            /\ pc' = "send"
       ELSE pc' = "log" /\ UNCHANGED call
    /\ UNCHANGED <<prog, exit_code, args, PRIVATE_KEY, csv_file, registered, onchain, txs,
                   prices, updates, idx, tx_hash, log>>
    /\ UNCHANGED guardVars

\* main: log_updates(updates, tx_hash): one entry with the last tx_hash; a failed
\* write raises and main exits 1; otherwise main returns (status 0)
IND_LogUpdates ==
    /\ prog = "push_h100_individual_prices" /\ pc = "log"
    /\ \E write_ok \in BOOLEAN :
        IF write_ok
        THEN /\ log' = AppendCapped(log, [tx_hash |-> tx_hash, updates |-> updates])
             /\ Exit(0)
        ELSE Exit(1) /\ UNCHANGED log
    /\ UNCHANGED <<prog, args, PRIVATE_KEY, csv_file, registered, onchain, txs, prices,
                   updates, idx, call, tx_hash>>
    /\ UNCHANGED guardVars

(***************************************************************************)
(* gpu_index_calculator.py: the aggregator.                                *)
(* A weight is an integer count of 1/100 percent.  The module-level table  *)
(* df is the provider table after the outlier filter (lines 8, 125-154):   *)
(* a sequence of rows [Provider, AvgNormalizedPrice], the price NaN when   *)
(* the cell is empty.                                                      *)
(***************************************************************************)
\* provider_weights.get(provider, 0)
provider_weights(provider) ==
    CASE provider = "Voltage Park" -> 709
      [] provider = "Nebius" -> 501
      [] provider = "Lambda Labs" -> 400
      [] provider = "Crusoe" -> 160
      [] OTHER -> 0

\* the keys of hyperscalers, in insertion order
hyperscaler_names == <<"Amazon Web Services", "Microsoft Azure", "Google Cloud", "CoreWeave">>

\* hyperscalers[provider]; an absent static price is None
hyperscalers(provider) ==
    CASE provider = "Amazon Web Services" ->
             [weight |-> 1828, buyers_getting_discount |-> 100, discount |-> 44,
              website_price |-> None, research_price |-> None]
      [] provider = "Microsoft Azure" ->
             [weight |-> 2354, buyers_getting_discount |-> 65, discount |-> 65,
              website_price |-> (188 * PriceUnit) \div 10,
              research_price |-> (62 * PriceUnit) \div 10]
      [] provider = "Google Cloud" ->
             [weight |-> 1028, buyers_getting_discount |-> 65, discount |-> 65,
              website_price |-> 10 * PriceUnit, research_price |-> 4 * PriceUnit]
      [] provider = "CoreWeave" ->
             [weight |-> 374, buyers_getting_discount |-> 80, discount |-> 50,
              website_price |-> (6155 * PriceUnit) \div 1000,
              research_price |-> 3 * PriceUnit]

\* the rows of table t whose Provider is provider
ProviderData(t, provider) == {i \in 1..Len(t) : t[i].Provider = provider}

\* mutant: the research price is tried before the website price
base_price_ResearchFirst(t, provider) ==
    LET raw_price == t[CHOOSE i \in ProviderData(t, provider) :
                           \A j \in ProviderData(t, provider) : i <= j].AvgNormalizedPrice
        data == hyperscalers(provider)
    IN IF ~IsNaN(raw_price) THEN raw_price
       ELSE IF data.research_price # None THEN data.research_price
       ELSE IF data.website_price # None THEN data.website_price
       ELSE NaN

\* fallback hierarchy: CSV price -> website_price -> research_price
base_price(t, provider) ==
    LET raw_price == t[CHOOSE i \in ProviderData(t, provider) :
                           \A j \in ProviderData(t, provider) : i <= j].AvgNormalizedPrice
        data == hyperscalers(provider)
    IN IF ~IsNaN(raw_price) THEN raw_price
       ELSE IF data.website_price # None THEN data.website_price
       ELSE IF data.research_price # None THEN data.research_price
       ELSE NaN

\* 1/400 parts of the weight that count after the discount:
\* weight*b*(1-d)*p + (weight - weight*b)*p = weight*p*(1 - b*d)
EffectiveParts(data) == (10000 - data.buyers_getting_discount * data.discount) \div 25

\* the hyperscalers that contribute: found in the table with a usable price
HyperscalersUsed(t) ==
    {k \in 1..Len(hyperscaler_names) :
        /\ ProviderData(t, hyperscaler_names[k]) # {}
        /\ ~IsNaN(base_price(t, hyperscaler_names[k]))}

\* the rows of the other providers that contribute: a weight and a price
OthersUsed(t) ==
    {i \in 1..Len(t) :
        /\ t[i].Provider \notin Range(hyperscaler_names)
        /\ provider_weights(t[i].Provider) > 0
        /\ ~IsNaN(t[i].AvgNormalizedPrice)}

RECURSIVE SumOver(_, _)
\* the sum of f[x] over the finite set S
SumOver(S, f) ==
    IF S = {} THEN 0
    ELSE LET x == CHOOSE y \in S : TRUE IN f[x] + SumOver(S \ {x}, f)

\* hyperscaler_weighted_price (in 1/400), hyperscaler_weight
hyperscaler_weighted_price(t) ==
    SumOver(HyperscalersUsed(t),
            [k \in HyperscalersUsed(t) |->
                hyperscalers(hyperscaler_names[k]).weight
                  * base_price(t, hyperscaler_names[k])
                  * EffectiveParts(hyperscalers(hyperscaler_names[k]))])

hyperscaler_weight(t) ==
    SumOver(HyperscalersUsed(t),
            [k \in HyperscalersUsed(t) |-> hyperscalers(hyperscaler_names[k]).weight])

\* mutant: "total_weight += weight" before the NaN check of the price
non_hyperscaler_weight_CountsUnpriced(t) ==
    SumOver({i \in 1..Len(t) : /\ t[i].Provider \notin Range(hyperscaler_names)
                               /\ provider_weights(t[i].Provider) > 0},
            [i \in 1..Len(t) |-> provider_weights(t[i].Provider)])

\* non_hyperscaler_weighted_price (in 1/400), non_hyperscaler_weight
non_hyperscaler_weighted_price(t) ==
    SumOver(OthersUsed(t),
            [i \in OthersUsed(t) |->
                provider_weights(t[i].Provider) * t[i].AvgNormalizedPrice * 400])

non_hyperscaler_weight(t) ==
    SumOver(OthersUsed(t), [i \in OthersUsed(t) |-> provider_weights(t[i].Provider)])

\* mutant: the weighted sum is divided by the full weight of 100%
IndexPrice_OverFullWeight(weighted, weight) ==
    IF weight > 0 THEN weighted \div (10000 * 400) ELSE 0

\* "if total_weight > 0: price = weighted / weight else: price = 0"
IndexPrice(weighted, weight) == IF weight > 0 THEN weighted \div (weight * 400) ELSE 0

\* the triple calculate_weighted_index returns
IndexPrices(t) ==
    [full |-> IndexPrice(hyperscaler_weighted_price(t) + non_hyperscaler_weighted_price(t),
                         hyperscaler_weight(t) + non_hyperscaler_weight(t)),
     hyp |-> IndexPrice(hyperscaler_weighted_price(t), hyperscaler_weight(t)),
     non |-> IndexPrice(non_hyperscaler_weighted_price(t), non_hyperscaler_weight(t))]

\* prices.dropna(): the rows of t with a price
PricedRows(t) == {i \in 1..Len(t) : ~IsNaN(t[i].AvgNormalizedPrice)}

\* the price at position k (from 0) of the sorted prices of t
OrderStat(t, k) ==
    CHOOSE v \in {t[i].AvgNormalizedPrice : i \in PricedRows(t)} :
        /\ Cardinality({i \in PricedRows(t) : t[i].AvgNormalizedPrice < v}) <= k
        /\ Cardinality({i \in PricedRows(t) : t[i].AvgNormalizedPrice <= v}) > k

\* 4 * prices.quantile(q / 4) (linear interpolation between sorted prices)
Quantile4(t, q) ==
    LET pos == q * (Cardinality(PricedRows(t)) - 1)
        k == pos \div 4
        r == pos % 4
    IN (4 - r) * OrderStat(t, k) + r * OrderStat(t, IF r = 0 THEN k ELSE k + 1)

\* 8 * lower_bound and 8 * upper_bound of method 'iqr'; m2 is 2 * multiplier
lower_bound8(t, m2) == 2 * Quantile4(t, 1) - m2 * (Quantile4(t, 3) - Quantile4(t, 1))

upper_bound8(t, m2) == 2 * Quantile4(t, 3) + m2 * (Quantile4(t, 3) - Quantile4(t, 1))

\* outlier_mask: with no price the bounds are NaN and nothing is an outlier
outlier_mask(t, m2, price) ==
    /\ PricedRows(t) # {}
    /\ ~IsNaN(price)
    /\ \/ 8 * price < lower_bound8(t, m2)
       \/ 8 * price > upper_bound8(t, m2)

\* filter_outliers(df, method='iqr', multiplier): filtered_df
filter_outliers(t, m2) ==
    LET Kept(row) == ~outlier_mask(t, m2, row.AvgNormalizedPrice)
    IN SelectSeq(t, Kept)

IsHyperscalerRow(row) == row.Provider \in Range(hyperscaler_names)

IsOtherRow(row) == row.Provider \notin Range(hyperscaler_names)

\* mutant: the filter runs over the whole table
FilteredTable_AllRows(raw) ==
    IF SelectSeq(raw, IsOtherRow) = <<>> THEN raw
    ELSE filter_outliers(raw, 5)

\* module level: "Filter outliers from non-hyperscalers only", multiplier 2.5;
\* df = pd.concat([hyperscaler_df, df_filtered])
FilteredTable(raw) ==
    IF SelectSeq(raw, IsOtherRow) = <<>> THEN raw
    ELSE SelectSeq(raw, IsHyperscalerRow) \o filter_outliers(SelectSeq(raw, IsOtherRow), 5)

\* DataFrame.to_csv / csv reader: an empty cell for NaN, which float() rejects
ToCsvCell(v) == IF IsNaN(v) THEN NonNumeric ELSE v

\* mutant: the file keeps the hyperscaler price in the full-index column
ResultsFile_WrongColumn(t) ==
    [exists |-> TRUE,
     rows |-> <<[c \in Range(required_columns) \cup {"Total_Weight_Percent"} |->
                 CASE c = "Full_Index_Price" -> ToCsvCell(IndexPrices(t).hyp)
                   [] c = "Hyperscalers_Only_Price" -> ToCsvCell(IndexPrices(t).hyp)
                   [] c = "Non_Hyperscalers_Only_Price" -> ToCsvCell(IndexPrices(t).non)
                   [] OTHER -> hyperscaler_weight(t) + non_hyperscaler_weight(t)]>>]

\* results_df.to_csv("h100_gpu_index.csv"): the file is replaced by one row
ResultsFile(t) ==
    [exists |-> TRUE,
     rows |-> <<[c \in Range(required_columns) \cup {"Total_Weight_Percent"} |->
                 CASE c = "Full_Index_Price" -> ToCsvCell(IndexPrices(t).full)
                   [] c = "Hyperscalers_Only_Price" -> ToCsvCell(IndexPrices(t).hyp)
                   [] c = "Non_Hyperscalers_Only_Price" -> ToCsvCell(IndexPrices(t).non)
                   [] OTHER -> hyperscaler_weight(t) + non_hyperscaler_weight(t)]>>]

(***************************************************************************)
(* gpu_index_calculator.py: the History Store and the guard (__main__).    *)
(* A history row is [full_index_price, hyperscalers_only_price,            *)
(* non_hyperscalers_only_price, source]; an empty cell reads as NaN.       *)
(***************************************************************************)
\* average_last_n_prices(10)
HISTORY_WINDOW == 10

\* significant_change: threshold = 0.5, in percent
THRESHOLD_PERCENT == 50

\* hist.tail(n)
TailRows(hist, n) == IF Len(hist) <= n THEN hist ELSE SubSeq(hist, Len(hist) - n + 1, Len(hist))

\* hist[column].dropna(): the positions of the cells that are not NaN
DropNa(hist, column) == {i \in 1..Len(hist) : ~IsNaN(hist[i][column])}

\* get_last_price: the last full price that is not NaN, None without one
get_last_price(hist) ==
    IF DropNa(hist, "full_index_price") = {} THEN None
    ELSE hist[CHOOSE i \in DropNa(hist, "full_index_price") :
                  \A j \in DropNa(hist, "full_index_price") : j <= i].full_index_price

\* mutant: the mean of no cell is 0
ColumnMean_ZeroWhenEmpty(hist, column) ==
    IF DropNa(hist, column) = {} THEN 0
    ELSE SumOver(DropNa(hist, column), [i \in DropNa(hist, column) |-> hist[i][column]])
           \div Cardinality(DropNa(hist, column))

\* hist[column].dropna().mean(), None when no cell is left
ColumnMean(hist, column) ==
    IF DropNa(hist, column) = {} THEN None
    ELSE SumOver(DropNa(hist, column), [i \in DropNa(hist, column) |-> hist[i][column]])
           \div Cardinality(DropNa(hist, column))

\* average_last_n_prices(n)
average_last_n_prices(hist, n) ==
    [full |-> ColumnMean(TailRows(hist, n), "full_index_price"),
     hyp |-> ColumnMean(TailRows(hist, n), "hyperscalers_only_price"),
     non |-> ColumnMean(TailRows(hist, n), "non_hyperscalers_only_price")]

\* mutant: "return change > threshold"
significant_change_Strict(new, old) ==
    IF old = None THEN FALSE
    ELSE IF old = 0 THEN FALSE
    ELSE IF IsNaN(new) \/ IsNaN(old) THEN FALSE
    ELSE IF old < 0 THEN FALSE
    ELSE 100 * (IF new >= old THEN new - old ELSE old - new) > THRESHOLD_PERCENT * old

\* mutant: "threshold: float = 0.25"
significant_change_LowThreshold(new, old) ==
    IF old = None THEN FALSE
    ELSE IF old = 0 THEN FALSE
    ELSE IF IsNaN(new) \/ IsNaN(old) THEN FALSE
    ELSE IF old < 0 THEN FALSE
    ELSE 200 * (IF new >= old THEN new - old ELSE old - new) >= THRESHOLD_PERCENT * old

\* mutant: without "if old == 0: return False" (a change from 0 is significant)
significant_change_FromZero(new, old) ==
    IF old = None THEN FALSE
    ELSE IF old = 0 THEN new # 0
    ELSE IF IsNaN(new) \/ IsNaN(old) THEN FALSE
    ELSE IF old < 0 THEN FALSE
    ELSE 100 * (IF new >= old THEN new - old ELSE old - new) >= THRESHOLD_PERCENT * old

\* significant_change(new, old): abs(new - old) / old >= threshold
significant_change(new, old) ==
    IF old = None THEN FALSE
    ELSE IF old = 0 THEN FALSE
    ELSE IF IsNaN(new) \/ IsNaN(old) THEN FALSE
    ELSE IF old < 0 THEN FALSE
    ELSE 100 * (IF new >= old THEN new - old ELSE old - new) >= THRESHOLD_PERCENT * old

\* mutant: "pd.isna(full_price)" only, a zero price passes
PriceInvalid_NaNOnly(p) == p = None \/ IsNaN(p)

\* "(full_price is None) or pd.isna(full_price) or full_price == 0"
PriceInvalid(p) == p = None \/ IsNaN(p) \/ p = 0

\* calculate_weighted_index(): computes from the module-level df and replaces
\* h100_gpu_index.csv
Calculate ==
    /\ csv_file' = ResultsFile(df)
    /\ invocations' = invocations + 1

\* the locals of __main__ before the first statement; first_price and
\* confirming record the result of line 465 and whether line 486 ran
GuardLocals ==
    [full_price |-> None, hyperscaler_price |-> None, non_hyperscaler_price |-> None,
     full_price2 |-> None, last_price |-> None, reran |-> FALSE,
     final_source |-> "calculated", first_price |-> None, confirming |-> FALSE]

\* __main__: first calculation, last_price = get_last_price()
Guard_FirstCalculation ==
    /\ prog = "gpu_index_calculator" /\ pc = "first"
    /\ Calculate
    /\ g' = [g EXCEPT !.full_price = IndexPrices(df).full,
                      !.hyperscaler_price = IndexPrices(df).hyp,
                      !.non_hyperscaler_price = IndexPrices(df).non,
                      !.first_price = IndexPrices(df).full,
                      !.last_price = get_last_price(history)]
    /\ pc' = "recover"
    /\ UNCHANGED <<prog, exit_code, args, PRIVATE_KEY, registered, onchain, txs, prices,
                   updates, idx, call, tx_hash, log>>
    /\ UNCHANGED <<df, history, marker, GITHUB_ACTIONS, trigger_commits>>
    /\ UNCHANGED storeVars

\* mutant: no immediate rerun after an invalid first pass
Guard_Recover_Skipped ==
    /\ prog = "gpu_index_calculator" /\ pc = "recover"
    /\ pc' = "confirm"
    /\ UNCHANGED <<prog, exit_code, args, PRIVATE_KEY, csv_file, registered, onchain, txs,
                   prices, updates, idx, call, tx_hash, log>>
    /\ UNCHANGED <<df, history, marker, GITHUB_ACTIONS, g, invocations, trigger_commits>>
    /\ UNCHANGED storeVars

\* __main__: "If the first pass produced zero/NaN, attempt an immediate rerun"
Guard_Recover ==
    /\ prog = "gpu_index_calculator" /\ pc = "recover"
    /\ IF PriceInvalid(g.full_price)
       THEN /\ Calculate
            /\ LET r == IndexPrices(df) IN
               g' = IF Truthy(r.full) /\ ~IsNaN(r.full) /\ r.full # 0
                    THEN [g EXCEPT !.full_price2 = r.full, !.full_price = r.full,
                                   !.hyperscaler_price = r.hyp,
                                   !.non_hyperscaler_price = r.non,
                                   !.final_source = "rerun", !.reran = TRUE]
                    ELSE [g EXCEPT !.full_price2 = r.full]
       ELSE UNCHANGED <<csv_file, invocations, g>>
    /\ pc' = "confirm"
    /\ UNCHANGED <<prog, exit_code, args, PRIVATE_KEY, registered, onchain, txs, prices,
                   updates, idx, call, tx_hash, log>>
    /\ UNCHANGED <<df, history, marker, GITHUB_ACTIONS, trigger_commits>>
    /\ UNCHANGED storeVars

\* mutant: the confirmed values are adopted without "final_source = 'rerun'"
Guard_Confirm_Unmarked ==
    /\ prog = "gpu_index_calculator" /\ pc = "confirm"
    /\ IF g.last_price # None /\ significant_change(g.full_price, g.last_price)
       THEN /\ Calculate
            /\ LET r == IndexPrices(df) IN
               g' = IF Truthy(r.full) /\ ~IsNaN(r.full)
                    THEN [g EXCEPT !.full_price2 = r.full, !.full_price = r.full,
                                   !.hyperscaler_price = r.hyp,
                                   !.non_hyperscaler_price = r.non,
                                   !.reran = TRUE, !.confirming = TRUE]
                    ELSE [g EXCEPT !.full_price2 = r.full, !.reran = TRUE,
                                   !.confirming = TRUE]
       ELSE UNCHANGED <<csv_file, invocations, g>>
    /\ pc' = "fallback"
    /\ UNCHANGED <<prog, exit_code, args, PRIVATE_KEY, registered, onchain, txs, prices,
                   updates, idx, call, tx_hash, log>>
    /\ UNCHANGED <<df, history, marker, GITHUB_ACTIONS, trigger_commits>>
    /\ UNCHANGED storeVars

\* __main__: ">=50% change from last stored price: re-run to confirm"
Guard_Confirm ==
    /\ prog = "gpu_index_calculator" /\ pc = "confirm"
    /\ IF g.last_price # None /\ significant_change(g.full_price, g.last_price)
       THEN /\ Calculate
            /\ LET r == IndexPrices(df) IN
               g' = IF Truthy(r.full) /\ ~IsNaN(r.full)
                    THEN [g EXCEPT !.full_price2 = r.full, !.full_price = r.full,
                                   !.hyperscaler_price = r.hyp,
                                   !.non_hyperscaler_price = r.non,
                                   !.final_source = "rerun", !.reran = TRUE,
                                   !.confirming = TRUE]
                    ELSE [g EXCEPT !.full_price2 = r.full, !.reran = TRUE,
                                   !.confirming = TRUE]
       ELSE UNCHANGED <<csv_file, invocations, g>>
    /\ pc' = "fallback"
    /\ UNCHANGED <<prog, exit_code, args, PRIVATE_KEY, registered, onchain, txs, prices,
                   updates, idx, call, tx_hash, log>>
    /\ UNCHANGED <<df, history, marker, GITHUB_ACTIONS, trigger_commits>>
    /\ UNCHANGED storeVars

\* __main__: "Fallback if price is 0/NaN or empty after rerun attempt"
Guard_Fallback ==
    /\ prog = "gpu_index_calculator" /\ pc = "fallback"
    /\ LET avg == average_last_n_prices(history, HISTORY_WINDOW) IN
       g' = IF PriceInvalid(g.full_price) /\ avg.full # None
            THEN [g EXCEPT !.full_price = avg.full,
                           !.hyperscaler_price =
                               IF avg.hyp # None THEN avg.hyp ELSE g.hyperscaler_price,
                           !.non_hyperscaler_price =
                               IF avg.non # None THEN avg.non ELSE g.non_hyperscaler_price,
                           !.final_source = "fallback_avg"]
            ELSE g
    /\ pc' = "append"
    /\ UNCHANGED <<prog, exit_code, args, PRIVATE_KEY, csv_file, registered, onchain, txs,
                   prices, updates, idx, call, tx_hash, log>>
    /\ UNCHANGED <<df, history, marker, GITHUB_ACTIONS, invocations, trigger_commits>>
    /\ UNCHANGED storeVars

\* mutant: "mode = 'w'", the record replaces the file
append_price_history_Overwrite(hist, full_price, hyperscaler_price, non_hyperscaler_price, source) ==
    <<[full_index_price |-> full_price,
       hyperscalers_only_price |-> hyperscaler_price,
       non_hyperscalers_only_price |-> non_hyperscaler_price,
       source |-> source]>>

\* append_price_history(full_price, hyperscaler_price, non_hyperscaler_price, source)
append_price_history(hist, full_price, hyperscaler_price, non_hyperscaler_price, source) ==
    Append(hist, [full_index_price |-> full_price,
                  hyperscalers_only_price |-> hyperscaler_price,
                  non_hyperscalers_only_price |-> non_hyperscaler_price,
                  source |-> source])

\* __main__: append the record of the run
Guard_Append ==
    /\ prog = "gpu_index_calculator" /\ pc = "append"
    /\ history' = append_price_history(history, g.full_price, g.hyperscaler_price,
                                       g.non_hyperscaler_price, g.final_source)
    /\ pc' = "trigger"
    /\ UNCHANGED <<prog, exit_code, args, PRIVATE_KEY, csv_file, registered, onchain, txs,
                   prices, updates, idx, call, tx_hash, log>>
    /\ UNCHANGED <<df, marker, GITHUB_ACTIONS, g, invocations, trigger_commits>>
    /\ UNCHANGED storeVars

\* attempt_trigger_commit reaches "git commit" (its three early returns passed)
TriggerEligible(last_price, new_price) ==
    /\ GITHUB_ACTIONS
    /\ significant_change(new_price, last_price)
    /\ ~marker

\* mutant: "if last_price is not None", whatever the source
TriggerRequested_AnySource(last_price, final_source) == last_price # None

\* "if last_price is not None and final_source == 'rerun'"
TriggerRequested(last_price, final_source) ==
    last_price # None /\ final_source = "rerun"

\* __main__: "Attempt trigger commit only if rerun confirmed large change";
\* attempt_trigger_commit marks, commits (the commit can fail) and pushes;
\* the script ends
Guard_Trigger ==
    /\ prog = "gpu_index_calculator" /\ pc = "trigger"
    /\ IF TriggerRequested(g.last_price, g.final_source)
          /\ TriggerEligible(g.last_price, g.full_price)
       THEN /\ marker' = TRUE
            /\ \E committed \in BOOLEAN :
                 trigger_commits' = IF committed THEN trigger_commits + 1
                                    ELSE trigger_commits
       ELSE UNCHANGED <<marker, trigger_commits>>
    /\ Exit(0)
    /\ UNCHANGED <<prog, args, PRIVATE_KEY, csv_file, registered, onchain, txs,
                   prices, updates, idx, call, tx_hash, log>>
    /\ UNCHANGED <<df, history, GITHUB_ACTIONS, g, invocations>>
    /\ UNCHANGED storeVars

\* the workflow runs push_to_contract.py (default --csv h100_gpu_index.csv)
\* after gpu_index_calculator.py has ended
Pipeline_RunPublisher ==
    /\ prog = "gpu_index_calculator" /\ pc = "exit" /\ exit_code = 0
    /\ prog' = "push_to_contract"
    /\ pc' = "main"
    /\ exit_code' = Running
    /\ UNCHANGED <<args, PRIVATE_KEY, csv_file, registered, onchain, txs, prices,
                   updates, idx, call, tx_hash, log>>
    /\ UNCHANGED guardVars

(***************************************************************************)
(* Further runs of gpu_index_calculator.py and the script                  *)
(* recalculate_historical_index.py.                                        *)
(***************************************************************************)
\* runs of gpu_index_calculator.py in one behaviour
MaxRuns == 2

\* the provider tables of the runs after the first
NextProviderTables ==
    {<<>>,
     <<[Provider |-> "Amazon Web Services", AvgNormalizedPrice |-> Usd(5)],
       [Provider |-> "Nebius", AvgNormalizedPrice |-> Usd(3)]>>,
     <<[Provider |-> "Amazon Web Services", AvgNormalizedPrice |-> Usd(9)],
       [Provider |-> "Nebius", AvgNormalizedPrice |-> Usd(8)]>>}

\* the next run of the script: a new process (module level and __main__ from
\* the start) on the files the earlier runs left
Guard_NextRun ==
    /\ prog = "gpu_index_calculator" /\ pc = "exit"
    /\ runs < MaxRuns
    /\ runs' = runs + 1
    /\ provider_averages' \in NextProviderTables
    /\ df' = provider_averages'
    /\ g' = GuardLocals
    /\ invocations' = 0
    /\ history_before' = history
    /\ pc' = "first"
    /\ exit_code' = Running
    /\ UNCHANGED <<prog, args, PRIVATE_KEY, csv_file, registered, onchain, txs, prices,
                   updates, idx, call, tx_hash, log>>
    /\ UNCHANGED <<history, marker, GITHUB_ACTIONS, trigger_commits, corrected_history,
                   pusher>>

\* calculate_corrected_index: old_index + (delta_contribution / total_weight),
\* with aws_weight = 0.1828, total_weight = 0.8895, aws_discount = 0.44
calculate_corrected_index(old_index, old_aws_price, new_aws_price) ==
    old_index + (1828 * (new_aws_price - old_aws_price) * 56) \div (8895 * 100)

\* what the git history gives for a record: no commit near its timestamp, or
\* a snapshot with the AWS average before and after the GPU-count correction
Snapshots ==
    {[status |-> "no_commit", old_aws_price |-> None, new_aws_price |-> None],
     [status |-> "no_aws_data", old_aws_price |-> None, new_aws_price |-> None],
     [status |-> "success", old_aws_price |-> Usd(1), new_aws_price |-> Usd(6)]}

\* the result record of one history row
RecalculatedRow(row, snapshot) ==
    [old_index |-> row.full_index_price,
     corrected_index |->
         IF snapshot.status = "success"
         THEN calculate_corrected_index(row.full_index_price, snapshot.old_aws_price,
                                        snapshot.new_aws_price)
         ELSE None,
     status |-> snapshot.status]

\* mutant: "output_file = 'gpu_index_history.csv'", the corrected prices
\* replace the full prices of the history
Recalculate_InPlace ==
    /\ prog = "gpu_index_calculator" /\ pc = "exit"
    /\ Len(history) > 0
    /\ \E snapshot \in Snapshots : \E k \in {Len(history) \div 2, Len(history)} :
         history' =
             [i \in 1..Len(history) |->
                 [history[i] EXCEPT !.full_index_price =
                     RecalculatedRow(history[i],
                         IF i <= k THEN snapshot
                         ELSE [status |-> "no_commit", old_aws_price |-> None,
                               new_aws_price |-> None]).corrected_index]]
    /\ UNCHANGED pubVars
    /\ UNCHANGED <<df, corrected_history, marker, GITHUB_ACTIONS, g, invocations,
                   trigger_commits, runs, history_before, provider_averages, pusher>>

\* recalculate_historical_index.main: reads gpu_index_history.csv and writes
\* one result record per row to corrected_gpu_index_history.csv; the rows up
\* to k get the snapshot, the later rows have no commit
Recalculate ==
    /\ prog = "gpu_index_calculator" /\ pc = "exit"
    /\ Len(history) > 0
    /\ \E snapshot \in Snapshots : \E k \in {Len(history) \div 2, Len(history)} :
         corrected_history' =
             [exists |-> TRUE,
              rows |-> [i \in 1..Len(history) |->
                          RecalculatedRow(history[i],
                              IF i <= k THEN snapshot
                              ELSE [status |-> "no_commit", old_aws_price |-> None,
                                    new_aws_price |-> None])]]
    /\ UNCHANGED pubVars
    /\ UNCHANGED <<df, history, marker, GITHUB_ACTIONS, g, invocations, trigger_commits,
                   runs, history_before, provider_averages, pusher>>

(***************************************************************************)
(* Inputs of the publishers.                                               *)
(***************************************************************************)
\* three valid prices, one per asset
BasePrices == <<(385 * PriceUnit) \div 100, (420 * PriceUnit) \div 100, (295 * PriceUnit) \div 100>>

\* prices at and beyond the validation limits
EdgePrices == {0, 0 - 1, NaN, Usd(SANE_MAX_USD), Usd(SANE_MAX_USD) + 1}

PriceTriples ==
    {BasePrices} \cup {[BasePrices EXCEPT ![i] = v] : i \in 1..3, v \in EdgePrices}

CsvRow(t) == [c \in Range(required_columns) |->
                 t[CHOOSE i \in 1..3 : required_columns[i] = c]]

CsvRowWithout(t, col) == [c \in Range(required_columns) \ {col} |->
                             t[CHOOSE i \in 1..3 : required_columns[i] = c]]

CsvFiles ==
    {[exists |-> FALSE, rows |-> <<>>], [exists |-> TRUE, rows |-> <<>>]}
      \cup {[exists |-> TRUE, rows |-> <<CsvRow(t)>>] : t \in PriceTriples}
      \cup {[exists |-> TRUE, rows |-> <<CsvRow([BasePrices EXCEPT ![i] = NonNumeric])>>] :
               i \in 1..3}
      \cup {[exists |-> TRUE, rows |-> <<CsvRowWithout(BasePrices, required_columns[i])>>] :
               i \in 1..3}
      \cup {[exists |-> TRUE,
             rows |-> <<CsvRow([BasePrices EXCEPT ![1] = NonNumeric]), CsvRow(BasePrices)>>]}

\* the price stored for a registered asset before the run
PrevPrice == Usd(3)

RegisteredChoices ==
    {[a \in AllAssets |-> TRUE], [a \in AllAssets |-> FALSE],
     [a \in AllAssets |-> a \notin {ASSET_IDS[2], H100_ASSET_IDS[2]}]}

OptionPrices == {None, BasePrices[1]} \cup EdgePrices

NoCall == [caller |-> "none", func |-> "none", assets |-> <<>>, values |-> <<>>]

InitLedger ==
    /\ registered \in RegisteredChoices
    /\ onchain = [a \in AllAssets |-> IF registered[a] THEN PriceScaled(PrevPrice) ELSE 0]
    /\ txs = <<>>

InitGuardIdle ==
    /\ df = <<>>
    /\ history = <<>>
    /\ marker = FALSE
    /\ GITHUB_ACTIONS = FALSE
    /\ g = <<>>
    /\ invocations = 0
    /\ trigger_commits = 0
    /\ runs = 0
    /\ history_before = <<>>
    /\ corrected_history = [exists |-> FALSE, rows |-> <<>>]
    /\ provider_averages = df
    /\ pusher = NoPusher

InitPushToContract ==
    /\ prog = "push_to_contract"
    /\ \/ /\ args \in [register : BOOLEAN, manual_prices : {<<>>}, no_verify : BOOLEAN,
                       dry_run : BOOLEAN]
          /\ csv_file \in CsvFiles
       \/ /\ args \in [register : BOOLEAN, manual_prices : PriceTriples,
                       no_verify : BOOLEAN, dry_run : BOOLEAN]
          /\ csv_file \in {[exists |-> FALSE, rows |-> <<>>],
                           [exists |-> TRUE, rows |-> <<CsvRow(BasePrices)>>]}

InitIndividual ==
    /\ prog = "push_h100_individual_prices"
    /\ args \in [aws : OptionPrices, azure : OptionPrices, gcp : OptionPrices,
                 batch : BOOLEAN, show : BOOLEAN]
    /\ csv_file = [exists |-> FALSE, rows |-> <<>>]

InitPublisher ==
    /\ pc = "main"
    /\ exit_code = Running
    /\ PRIVATE_KEY \in BOOLEAN
    /\ prices = NoPrices
    /\ updates = <<>>
    /\ idx = 1
    /\ call = NoCall
    /\ tx_hash = NoTx
    /\ log = <<>>

Init ==
    /\ InitPushToContract \/ InitIndividual
    /\ InitPublisher
    /\ InitLedger
    /\ InitGuardIdle

Next ==
    \/ PTC_Initialize
    \/ PTC_Register
    \/ PTC_DeterminePrices
    \/ PTC_ValidatePrices
    \/ PTC_Execute
    \/ PTC_LogUpdate
    \/ IND_Initialize
    \/ IND_BuildUpdates
    \/ IND_ValidatePrices
    \/ IND_Execute
    \/ IND_LogUpdates
    \/ SendRawTransaction
    \/ WaitForReceipt
    \/ LedgerMine

Spec == Init /\ [][Next]_vars

(***************************************************************************)
(* The pipeline: gpu_index_calculator.py, then push_to_contract.py reading *)
(* the h100_gpu_index.csv the calculator wrote.                            *)
(***************************************************************************)
Row(provider, price) == [Provider |-> provider, AvgNormalizedPrice |-> price]

\* provider tables after the outlier filter
ProviderTables ==
    {<<>>,
     <<Row("Paperspace", Usd(3))>>,
     <<Row("Nebius", 0)>>,
     <<Row("Amazon Web Services", NaN)>>,
     <<Row("Amazon Web Services", Usd(5))>>,
     <<Row("Amazon Web Services", Usd(5)), Row("Nebius", Usd(3))>>,
     <<Row("Amazon Web Services", Usd(5)), Row("Amazon Web Services", Usd(7)),
       Row("Crusoe", Usd(2))>>,
     <<Row("Microsoft Azure", NaN), Row("Lambda Labs", Usd(3))>>,
     <<Row("CoreWeave", NaN), Row("Voltage Park", Usd(2)), Row("Paperspace", Usd(1))>>,
     <<Row("Amazon Web Services", Usd(9)), Row("Google Cloud", Usd(8)),
       Row("Nebius", Usd(8)), Row("Lambda Labs", NaN)>>}

HistoryRow(full, hyp, non, source) ==
    [full_index_price |-> full, hyperscalers_only_price |-> hyp,
     non_hyperscalers_only_price |-> non, source |-> source]

\* last stored prices below, at and above the threshold distance from index c
LastPriceChoices(c) ==
    IF c > 0 THEN {c, 2 * c, 2 * c - 1, (2 * c) \div 3, (2 * c) \div 3 + 1}
    ELSE {0, Usd(4)}

\* gpu_index_history.csv as earlier runs left it, for a run that computes c
Histories(c) ==
    {<<>>}
      \cup {<<HistoryRow(l, l, l, "calculated")>> : l \in LastPriceChoices(c)}
      \cup {<<HistoryRow(Usd(2), Usd(3), Usd(1), "calculated"),
              HistoryRow(Usd(4), Usd(5), Usd(3), "rerun")>>}
      \cup {<<HistoryRow(0, 0, 0, "calculated"),
              HistoryRow(Usd(4), Usd(5), Usd(3), "calculated")>>}
      \cup {<<HistoryRow(Usd(1), Usd(1), Usd(1), "calculated"),
              HistoryRow(Usd(1), Usd(1), Usd(1), "calculated"),
              HistoryRow(Usd(4), Usd(5), Usd(3), "calculated")>>}
      \cup {[i \in 1..(HISTORY_WINDOW + 1) |-> HistoryRow(Usd(i), Usd(i), Usd(i), "calculated")]}

\* the histories of the runs that vary the publisher's options
HistoriesBrief(c) ==
    {<<>>,
     <<HistoryRow(2 * c + Usd(1), 2 * c + Usd(1), 2 * c + Usd(1), "calculated")>>,
     <<HistoryRow(Usd(2), Usd(3), Usd(1), "calculated"),
       HistoryRow(Usd(4), Usd(5), Usd(3), "rerun")>>}

\* a guard run in every history and environment, followed by a plain publisher run
InitGuardVariety ==
    /\ history \in Histories(IndexPrices(df).full)
    /\ GITHUB_ACTIONS \in BOOLEAN
    /\ marker \in (IF GITHUB_ACTIONS THEN BOOLEAN ELSE {FALSE})
    /\ args = [register |-> FALSE, manual_prices |-> <<>>, no_verify |-> FALSE,
               dry_run |-> FALSE]
    /\ registered = [a \in AllAssets |-> TRUE]

\* a guard run followed by a publisher run with any options and ledger
InitPublisherVariety ==
    /\ history \in HistoriesBrief(IndexPrices(df).full)
    /\ GITHUB_ACTIONS = FALSE
    /\ marker = FALSE
    /\ args \in [register : BOOLEAN, manual_prices : {<<>>, BasePrices},
                 no_verify : {FALSE}, dry_run : BOOLEAN]

InitPipeline ==
    /\ prog = "gpu_index_calculator"
    /\ pc = "first"
    /\ exit_code = Running
    /\ PRIVATE_KEY = TRUE
    /\ csv_file \in {[exists |-> FALSE, rows |-> <<>>],
                     [exists |-> TRUE, rows |-> <<CsvRow(BasePrices)>>]}
    /\ prices = NoPrices
    /\ updates = <<>>
    /\ idx = 1
    /\ call = NoCall
    /\ tx_hash = NoTx
    /\ log = <<>>
    /\ InitLedger
    /\ df \in ProviderTables
    /\ g = GuardLocals
    /\ invocations = 0
    /\ trigger_commits = 0
    /\ InitGuardVariety \/ InitPublisherVariety
    /\ runs = 1
    /\ history_before = history
    /\ corrected_history = [exists |-> FALSE, rows |-> <<>>]
    /\ provider_averages = df
    /\ pusher = NoPusher

NextPipeline ==
    \/ Guard_FirstCalculation
    \/ Guard_Recover
    \/ Guard_Confirm
    \/ Guard_Fallback
    \/ Guard_Append
    \/ Guard_Trigger
    \/ Pipeline_RunPublisher
    \/ PTC_Initialize
    \/ PTC_Register
    \/ PTC_DeterminePrices
    \/ PTC_ValidatePrices
    \/ PTC_Execute
    \/ PTC_LogUpdate
    \/ SendRawTransaction
    \/ WaitForReceipt
    \/ LedgerMine

SpecPipeline == InitPipeline /\ [][NextPipeline]_vars

(***************************************************************************)
(* The guard alone: runs of gpu_index_calculator.py, one after the other,  *)
(* and runs of recalculate_historical_index.py between them.               *)
(***************************************************************************)
InitGuardRuns ==
    /\ prog = "gpu_index_calculator"
    /\ pc = "first"
    /\ exit_code = Running
    /\ PRIVATE_KEY = TRUE
    /\ csv_file = [exists |-> FALSE, rows |-> <<>>]
    /\ prices = NoPrices
    /\ updates = <<>>
    /\ idx = 1
    /\ call = NoCall
    /\ tx_hash = NoTx
    /\ log = <<>>
    /\ InitLedger
    /\ df \in ProviderTables
    /\ g = GuardLocals
    /\ invocations = 0
    /\ trigger_commits = 0
    /\ InitGuardVariety
    /\ runs = 1
    /\ history_before = history
    /\ corrected_history = [exists |-> FALSE, rows |-> <<>>]
    /\ provider_averages = df
    /\ pusher = NoPusher

NextGuard ==
    \/ Guard_FirstCalculation
    \/ Guard_Recover
    \/ Guard_Confirm
    \/ Guard_Fallback
    \/ Guard_Append
    \/ Guard_Trigger
    \/ Guard_NextRun
    \/ Recalculate

SpecGuard == InitGuardRuns /\ [][NextGuard]_vars

(***************************************************************************)
(* The audit log over many runs of a publisher: every run of the sequence  *)
(* has published and stands before its log_update / log_updates call; the  *)
(* log file is absent before the first run.  The transaction hash of a run *)
(* is the ordinal of its log entry.                                        *)
(***************************************************************************)
\* runs of a publisher in one behaviour
MaxAppends == 102

InitAuditLog ==
    /\ prog \in {"push_to_contract", "push_h100_individual_prices"}
    /\ pc = "log"
    /\ exit_code = Running
    /\ PRIVATE_KEY = TRUE
    /\ args = IF prog = "push_to_contract"
              THEN [register |-> FALSE, manual_prices |-> <<>>, no_verify |-> FALSE,
                    dry_run |-> FALSE]
              ELSE [aws |-> BasePrices[1], azure |-> None, gcp |-> None,
                    batch |-> FALSE, show |-> FALSE]
    /\ csv_file = [exists |-> TRUE, rows |-> <<CsvRow(BasePrices)>>]
    /\ prices = IF prog = "push_to_contract" THEN PricesDict(BasePrices) ELSE NoPrices
    /\ updates = IF prog = "push_to_contract" THEN <<>>
                 ELSE <<PriceUpdate(1, BasePrices[1])>>
    /\ idx = 1
    /\ call = NoCall
    /\ tx_hash = 1
    /\ log = <<>>
    /\ registered = [a \in AllAssets |-> TRUE]
    /\ onchain = [a \in AllAssets |-> PriceScaled(PrevPrice)]
    /\ txs = <<>>
    /\ InitGuardIdle

\* a later run of the same publisher reaches its log call on the log file
\* the earlier runs left
Publisher_NextRun ==
    /\ prog \in {"push_to_contract", "push_h100_individual_prices"}
    /\ pc = "exit"
    /\ runs < MaxAppends
    /\ runs' = runs + 1
    /\ tx_hash' = IF log = <<>> THEN 1 ELSE Last(log).tx_hash + 1
    /\ pc' = "log"
    /\ exit_code' = Running
    /\ UNCHANGED <<prog, args, PRIVATE_KEY, csv_file, registered, onchain, txs, prices,
                   updates, idx, call, log>>
    /\ UNCHANGED <<df, history, marker, GITHUB_ACTIONS, g, invocations, trigger_commits,
                   history_before, corrected_history, provider_averages,
                   pusher>>

NextAuditLog ==
    \/ PTC_LogUpdate
    \/ IND_LogUpdates
    \/ Publisher_NextRun

SpecAuditLog == InitAuditLog /\ [][NextAuditLog]_vars

(***************************************************************************)
(* The aggregator from its input file: the module level of                 *)
(* gpu_index_calculator.py reads provider_averages.csv and filters it,     *)
(* then __main__ runs; other programs can replace the file meanwhile.      *)
(***************************************************************************)
HyperscalerParts ==
    {<<>>,
     <<Row("Amazon Web Services", NaN)>>,
     <<Row("Amazon Web Services", Usd(5))>>,
     <<Row("Amazon Web Services", Usd(12))>>,
     <<Row("Amazon Web Services", NaN), Row("Amazon Web Services", Usd(5))>>,
     <<Row("Microsoft Azure", NaN)>>,
     <<Row("Microsoft Azure", Usd(6))>>,
     <<Row("Amazon Web Services", Usd(5)), Row("Microsoft Azure", NaN)>>,
     <<Row("Amazon Web Services", Usd(12)), Row("Google Cloud", NaN),
       Row("CoreWeave", Usd(3))>>}

OtherParts ==
    {<<>>,
     <<Row("Nebius", Usd(3))>>,
     <<Row("Paperspace", Usd(3))>>,
     <<Row("Nebius", NaN)>>,
     <<Row("Voltage Park", Usd(2)), Row("Nebius", Usd(3)), Row("Crusoe", Usd(4))>>,
     <<Row("Voltage Park", Usd(2)), Row("Nebius", Usd(2)), Row("Lambda Labs", Usd(2)),
       Row("Crusoe", Usd(30))>>,
     <<Row("Voltage Park", Usd(2)), Row("Nebius", Usd(2)), Row("Lambda Labs", Usd(3)),
       Row("Crusoe", Usd(30)), Row("Paperspace", Usd(2))>>,
     <<Row("Crusoe", Usd(1)), Row("Voltage Park", Usd(3)), Row("Nebius", Usd(3)),
       Row("Lambda Labs", Usd(3))>>,
     <<Row("Nebius", Usd(3)), Row("Lambda Labs", NaN), Row("Nebius", Usd(5))>>}

\* provider_averages.csv: the rows come in any order of the two kinds
RawTables ==
    {h \o o : h \in HyperscalerParts, o \in OtherParts}
      \cup {o \o h : h \in HyperscalerParts, o \in OtherParts}

InitAggregator ==
    /\ prog = "gpu_index_calculator"
    /\ pc = "load"
    /\ exit_code = Running
    /\ PRIVATE_KEY = TRUE
    /\ csv_file = [exists |-> FALSE, rows |-> <<>>]
    /\ prices = NoPrices
    /\ updates = <<>>
    /\ idx = 1
    /\ call = NoCall
    /\ tx_hash = NoTx
    /\ log = <<>>
    /\ args = [register |-> FALSE, manual_prices |-> <<>>, no_verify |-> FALSE,
               dry_run |-> FALSE]
    /\ registered = [a \in AllAssets |-> TRUE]
    /\ onchain = [a \in AllAssets |-> PriceScaled(PrevPrice)]
    /\ txs = <<>>
    /\ provider_averages \in RawTables
    /\ df = <<>>
    /\ g = GuardLocals
    /\ invocations = 0
    /\ history \in {<<>>, <<HistoryRow(Usd(1), Usd(1), Usd(1), "calculated")>>}
    /\ GITHUB_ACTIONS = FALSE
    /\ marker = FALSE
    /\ trigger_commits = 0
    /\ runs = 1
    /\ history_before = history
    /\ corrected_history = [exists |-> FALSE, rows |-> <<>>]
    /\ pusher = NoPusher

\* module level: df = pd.read_csv("provider_averages.csv"), outlier filter
Aggregator_Load ==
    /\ prog = "gpu_index_calculator" /\ pc = "load"
    /\ df' = FilteredTable(provider_averages)
    /\ pc' = "first"
    /\ UNCHANGED <<prog, exit_code, args, PRIVATE_KEY, csv_file, registered, onchain, txs,
                   prices, updates, idx, call, tx_hash, log>>
    /\ UNCHANGED <<history, marker, GITHUB_ACTIONS, g, invocations, trigger_commits>>
    /\ UNCHANGED storeVars

\* the pipeline replaces provider_averages.csv after the first calculation of
\* the running script and before a rerun
ProviderAverages_Update ==
    /\ prog = "gpu_index_calculator" /\ pc \in {"recover", "confirm"}
    /\ provider_averages' \in NextProviderTables \ {provider_averages}
    /\ UNCHANGED pubVars
    /\ UNCHANGED <<df, history, marker, GITHUB_ACTIONS, g, invocations, trigger_commits,
                   runs, history_before, corrected_history, pusher>>

NextAggregator ==
    \/ Aggregator_Load
    \/ ProviderAverages_Update
    \/ Guard_FirstCalculation
    \/ Guard_Recover
    \/ Guard_Confirm
    \/ Guard_Fallback
    \/ Guard_Append
    \/ Guard_Trigger

SpecAggregator == InitAggregator /\ [][NextAggregator]_vars

(***************************************************************************)
(* autorun.py: reads the oracle prices of the markets from the ledger and  *)
(* posts each to the edge function of its market.                          *)
(***************************************************************************)
MAX_RETRIES == 3

\* the keys of MARKETS and of MARKET_ENDPOINTS
MARKETS == {"H100_HOURLY", "H100_HYPERSCALERS_HOURLY", "H100_NON_HYPERSCALERS_HOURLY"}

MARKET_ENDPOINTS ==
    {"H100_HOURLY", "H100_HYPERSCALERS_HOURLY", "H100_NON_HYPERSCALERS_HOURLY"}

\* what one requests.post(..., timeout=10) gives: a response with status code
\* 200, a response with another status code, or one of the two exceptions
HttpOutcomes == {"200", "500", "Timeout", "RequestException"}

\* prices.items(): the fetched markets in the order fetch_market_prices
\* inserted them, which is the order of ASSET_IDS
PriceItems == SelectSeq(ASSET_IDS, LAMBDA a : a \in DOMAIN prices)

InitAutorun ==
    /\ prog = "autorun"
    /\ pc = "main"
    /\ exit_code = Running
    /\ args \in [dry_run : BOOLEAN]
    /\ PRIVATE_KEY = FALSE
    /\ csv_file = [exists |-> FALSE, rows |-> <<>>]
    /\ registered = [a \in AllAssets |-> TRUE]
    /\ onchain = [a \in AllAssets |-> PriceScaled(PrevPrice)]
    /\ txs = <<>>
    /\ prices = NoPrices
    /\ updates = <<>>
    /\ idx = 1
    /\ call = NoCall
    /\ tx_hash = NoTx
    /\ log = <<>>
    /\ InitGuardIdle

\* main: PricePusher(...); a failed connection raises ConnectionError and any
\* other failure of the constructor raises too; both handlers sys.exit(1)
AR_Connect ==
    /\ prog = "autorun" /\ pc = "main"
    /\ \E connected \in BOOLEAN :
          IF connected THEN pc' = "fetch" /\ UNCHANGED exit_code ELSE Exit(1)
    /\ UNCHANGED <<prog, args, PRIVATE_KEY, csv_file, registered, onchain, txs, prices,
                   updates, idx, call, tx_hash, log>>
    /\ UNCHANGED guardVars

\* main: prices = pusher.fetch_market_prices(); a market whose getPrice call
\* fails is left out; with no price at all main exits 1
AR_FetchMarketPrices ==
    /\ prog = "autorun" /\ pc = "fetch"
    /\ \E fetched \in SUBSET Range(ASSET_IDS) :
          /\ prices' = [a \in fetched \cap MARKETS |-> onchain[a] \div ScalePerUnit]
          /\ IF fetched \cap MARKETS = {} THEN Exit(1)
             ELSE pc' = "push" /\ UNCHANGED exit_code
    /\ UNCHANGED <<prog, args, PRIVATE_KEY, csv_file, registered, onchain, txs,
                   updates, idx, call, tx_hash, log>>
    /\ UNCHANGED guardVars

\* push_to_database, up to its loop: block_number = self.w3.eth.block_number
\* (a failed call raises, and main's handler exits 1), then both counters 0
AR_PushToDatabase ==
    /\ prog = "autorun" /\ pc = "push"
    /\ \E block_number_read \in BOOLEAN :
          IF block_number_read
          THEN /\ pusher' = [NoPusher EXCEPT !.success_count = 0, !.failed_count = 0,
                                             !.attempt = 1]
               /\ idx' = 1
               /\ pc' = "loop"
               /\ UNCHANGED exit_code
          ELSE Exit(1) /\ UNCHANGED <<pusher, idx>>
    /\ UNCHANGED <<prog, args, PRIVATE_KEY, csv_file, registered, onchain, txs, prices,
                   updates, call, tx_hash, log>>
    /\ UNCHANGED <<df, history, marker, GITHUB_ACTIONS, g, invocations, trigger_commits,
                   runs, history_before, corrected_history, provider_averages>>

\* mutant: every failed attempt counts the market as failed
AR_PushMarket_CountsEveryAttempt ==
    /\ prog = "autorun" /\ pc = "loop" /\ idx <= Len(PriceItems)
    /\ LET asset_name == PriceItems[idx] IN
       IF asset_name \notin MARKETS \/ asset_name \notin MARKET_ENDPOINTS
       THEN idx' = idx + 1 /\ UNCHANGED pusher
       ELSE IF args.dry_run
       THEN /\ pusher' = [pusher EXCEPT !.success_count = @ + 1]
            /\ idx' = idx + 1
       ELSE \E outcome \in HttpOutcomes :
               LET sent == [pusher EXCEPT !.posts[asset_name] = Append(@, outcome)] IN
               IF outcome = "200"
               THEN /\ pusher' = [sent EXCEPT !.success_count = @ + 1, !.attempt = 1]
                    /\ idx' = idx + 1
               ELSE IF pusher.attempt < MAX_RETRIES
               THEN /\ pusher' = [sent EXCEPT !.attempt = @ + 1, !.failed_count = @ + 1]
                    /\ UNCHANGED idx
               ELSE /\ pusher' = [sent EXCEPT !.failed_count = @ + 1, !.attempt = 1]
                    /\ idx' = idx + 1
    /\ UNCHANGED <<prog, pc, exit_code, args, PRIVATE_KEY, csv_file, registered, onchain,
                   txs, prices, updates, call, tx_hash, log>>
    /\ UNCHANGED <<df, history, marker, GITHUB_ACTIONS, g, invocations, trigger_commits,
                   runs, history_before, corrected_history, provider_averages>>

\* push_to_database, one step of its loops: the market of this iteration is
\* skipped without configuration, counted without a request in a dry run, and
\* otherwise sent one request: status 200 counts a success and ends the
\* attempts (break); anything else is retried after RETRY_DELAY seconds until
\* the attempt MAX_RETRIES, which counts a failure
AR_PushMarket ==
    /\ prog = "autorun" /\ pc = "loop" /\ idx <= Len(PriceItems)
    /\ LET asset_name == PriceItems[idx] IN
       IF asset_name \notin MARKETS \/ asset_name \notin MARKET_ENDPOINTS
       THEN idx' = idx + 1 /\ UNCHANGED pusher
       ELSE IF args.dry_run
       THEN /\ pusher' = [pusher EXCEPT !.success_count = @ + 1]
            /\ idx' = idx + 1
       ELSE \E outcome \in HttpOutcomes :
               LET sent == [pusher EXCEPT !.posts[asset_name] = Append(@, outcome)] IN
               IF outcome = "200"
               THEN /\ pusher' = [sent EXCEPT !.success_count = @ + 1, !.attempt = 1]
                    /\ idx' = idx + 1
               ELSE IF pusher.attempt < MAX_RETRIES
               THEN /\ pusher' = [sent EXCEPT !.attempt = @ + 1]
                    /\ UNCHANGED idx
               ELSE /\ pusher' = [sent EXCEPT !.failed_count = @ + 1, !.attempt = 1]
                    /\ idx' = idx + 1
    /\ UNCHANGED <<prog, pc, exit_code, args, PRIVATE_KEY, csv_file, registered, onchain,
                   txs, prices, updates, call, tx_hash, log>>
    /\ UNCHANGED <<df, history, marker, GITHUB_ACTIONS, g, invocations, trigger_commits,
                   runs, history_before, corrected_history, provider_averages>>

\* push_to_database returns (success_count, failed_count) and main exits: 0
\* in a dry run, 1 with a failed market, 0 otherwise
AR_Exit ==
    /\ prog = "autorun" /\ pc = "loop" /\ idx > Len(PriceItems)
    /\ IF args.dry_run THEN Exit(0)
       ELSE IF pusher.failed_count > 0 THEN Exit(1)
       ELSE Exit(0)
    /\ UNCHANGED <<prog, args, PRIVATE_KEY, csv_file, registered, onchain, txs, prices,
                   updates, idx, call, tx_hash, log>>
    /\ UNCHANGED guardVars

NextAutorun ==
    \/ AR_Connect
    \/ AR_FetchMarketPrices
    \/ AR_PushToDatabase
    \/ AR_PushMarket
    \/ AR_Exit

\* every step of autorun.py returns: requests.post has a timeout of 10 seconds
\* and the delay between attempts is RETRY_DELAY seconds
SpecAutorun == InitAutorun /\ [][NextAutorun]_vars /\ WF_vars(NextAutorun)

(***************************************************************************)
(* Properties of the publishers.                                           *)
(***************************************************************************)
IsPriceTx(t) == t.func \in {"updatePrice", "batchUpdatePrices"}

PriceTxs == {i \in 1..Len(txs) : IsPriceTx(txs[i])}

\* the assets whose price the run was asked to publish, with their input price
InputPrices ==
    IF prog = "push_to_contract" THEN prices
    ELSE [a \in {updates[k].asset_name : k \in 1..Len(updates)} |->
             updates[CHOOSE k \in 1..Len(updates) : updates[k].asset_name = a].price_usd]

\* the value transaction t carries for asset a
TxValue(t, a) == t.values[CHOOSE k \in 1..Len(t.assets) : t.assets[k] = a]

RealRun ==
    IF prog = "push_to_contract" THEN ~args.dry_run ELSE ~args.show

MarkedAsFailure(e) == "outcome" \in DOMAIN e /\ e.outcome = "failure"

\* C3 (as claimed): when the ledger reverts the batch transaction, no on-chain
\* price changes, and the run ends with exactly one audit-log entry, marked as
\* a failure, for the whole batch.
C3_RevertedBatchOneFailureEntry ==
    [][/\ \A i \in PriceTxs :
             (txs[i].status = "pending" /\ txs'[i].status = "reverted")
                 => onchain' = onchain
       /\ (/\ pc # "exit" /\ pc' = "exit"
           /\ tx_hash # NoTx
           /\ txs[tx_hash].func = "batchUpdatePrices"
           /\ txs[tx_hash].status = "reverted")
              => (Len(log') = 1 /\ MarkedAsFailure(log'[1]))]_vars

\* C6 (as claimed): a price at or below 0 or above 100 USD/hour among the
\* input prices means no price transaction and a non-zero exit.
OutOfRange(p) == ~IsNaN(p) /\ (p <= 0 \/ p > Usd(SANE_MAX_USD))

C6_OutOfRangeIsHardFailure ==
    (\E a \in DOMAIN InputPrices : OutOfRange(InputPrices[a])) =>
        /\ PriceTxs = {}
        /\ pc = "exit" => exit_code # 0

\* C6 (amended): a price at or below 0 among the input prices means no price
\* transaction and a non-zero exit; a price above 100 USD/hour is submitted;
\* every submitted value is the input price times the fixed-point scale (never
\* clamped).
C6_NonPositiveIsHardFailure ==
    /\ (\E a \in DOMAIN InputPrices : ~IsNaN(InputPrices[a]) /\ InputPrices[a] <= 0) =>
           /\ PriceTxs = {}
           /\ pc \notin {"execute", "update", "send", "wait", "log"}
           /\ pc = "exit" => exit_code = 1
    /\ \A i \in PriceTxs : \A a \in Range(txs[i].assets) :
           TxValue(txs[i], a) = InputPrices[a] * ScalePerUnit

\* C6 witness: a price above 100 USD/hour was submitted unaltered
C6_Witness ==
    \E i \in PriceTxs : \E a \in Range(txs[i].assets) :
        /\ InputPrices[a] > Usd(SANE_MAX_USD)
        /\ TxValue(txs[i], a) = InputPrices[a] * ScalePerUnit

\* C7 (as claimed): after a run, every transaction submitted in it has an
\* audit-log entry that records its transaction identifier.
C7_EverySubmittedTxIsLogged ==
    pc = "exit" =>
        \A i \in 1..Len(txs) : \E k \in 1..Len(log) : log[k].tx_hash = i

\* C8 (as claimed): the process exits with status 0 only when the price update
\* of every selected asset was accepted by the ledger.
C8_ExitZeroOnlyWhenAllAccepted ==
    (pc = "exit" /\ exit_code = 0 /\ RealRun) =>
        \A a \in DOMAIN InputPrices :
            \E i \in PriceTxs : a \in Range(txs[i].assets) /\ txs[i].status = "success"

\* the publisher cannot take prices from the last row of the index CSV
BadCsv(f) ==
    \/ ~f.exists
    \/ Len(f.rows) = 0
    \/ \E i \in 1..3 : required_columns[i] \notin DOMAIN Last(f.rows)
    \/ \E c \in DOMAIN Last(f.rows) : Last(f.rows)[c] = NonNumeric

ReadsBadCsv ==
    prog = "push_to_contract" /\ Len(args.manual_prices) = 0 /\ BadCsv(csv_file)

RunEntryAppended ==
    /\ invocations > 0
    /\ ~(prog = "gpu_index_calculator"
           /\ pc \in {"first", "recover", "confirm", "fallback", "append"})

\* the entry the guard appended in this run, and the history it found
Entry == Last(history)

PriorHistory == SubSeq(history, 1, Len(history) - 1)

\* a price that is zero, NaN or missing
InvalidPrice(p) == p = None \/ IsNaN(p) \/ p = 0

\* the first computation moved at or above the threshold against the last
\* history price and the confirmatory recomputation returned an invalid price
UnconfirmedMove ==
    /\ RunEntryAppended
    /\ g.last_price # None
    /\ significant_change(g.first_price, g.last_price)
    /\ g.confirming
    /\ InvalidPrice(g.full_price2)

\* C4: when the first computation moves at or above the threshold against the
\* last history price and the confirmatory recomputation is invalid, the first
\* value is not the one appended, and with a valid entry in the history the
\* appended entry has source 'fallback_avg'.
C4_UnconfirmedMoveFallsBack ==
    UnconfirmedMove =>
        /\ Entry.full_index_price # g.first_price
        /\ (\E i \in 1..Len(PriorHistory) : ~InvalidPrice(PriorHistory[i].full_index_price))
              => Entry.source = "fallback_avg"

C4_Witness ==
    /\ UnconfirmedMove
    /\ prog = "gpu_index_calculator" /\ pc = "exit"
    /\ Entry.source = "fallback_avg"
    /\ Entry.full_index_price = average_last_n_prices(PriorHistory, HISTORY_WINDOW).full

\* the price of the appended entry that belongs to asset a
EntryPrice(e, a) ==
    CASE a = ASSET_IDS[1] -> e.full_index_price
      [] a = ASSET_IDS[2] -> e.hyperscalers_only_price
      [] a = ASSET_IDS[3] -> e.non_hyperscalers_only_price

\* the publisher runs after the guard of this run, without --manual-prices
PublisherAfterGuard ==
    /\ invocations > 0
    /\ prog = "push_to_contract"
    /\ Len(args.manual_prices) = 0

\* C5 (as claimed): in a run without manual prices every price the publisher
\* submits to the ledger, in whatever transaction, is the scaled price of the
\* entry the guard appended in that run.
C5_SubmittedPricesAreAppendedEntry ==
    PublisherAfterGuard =>
        \A i \in 1..Len(txs) : \A k \in 1..Len(txs[i].assets) :
            txs[i].values[k] = PriceScaled(EntryPrice(Entry, txs[i].assets[k]))

\* C5 (amended): every price of a price-update transaction is the scaled price
\* of the appended entry; a registerAsset transaction carries the fixed initial
\* price; a run whose entry is a fallback average submits no price update and
\* does not exit 0.
C5_PriceUpdatesAreAppendedEntry ==
    PublisherAfterGuard =>
        /\ \A i \in 1..Len(txs) : \A k \in 1..Len(txs[i].assets) :
              txs[i].values[k] =
                  IF IsPriceTx(txs[i])
                  THEN PriceScaled(EntryPrice(Entry, txs[i].assets[k]))
                  ELSE PriceScaled(default_price)
        /\ Entry.source = "fallback_avg" => PriceTxs = {} /\ exit_code \in {Running, 1}

C5_Witness ==
    /\ PublisherAfterGuard
    /\ Entry.source = "rerun"
    /\ \E i \in PriceTxs : txs[i].status = "success"
    /\ \E i \in 1..Len(txs) : txs[i].func = "registerAsset"

(***************************************************************************)
(* Properties of the individual publisher's update loop.                   *)
(***************************************************************************)
\* update k of the list had its publish attempt: update_single_price was
\* called for it (it returned, or it is the call that raised)
PublishAttempted(k) ==
    \/ k < idx
    \/ k = idx /\ call.caller = "update_single_price"
               /\ call.assets = <<updates[k].asset_name>>

\* C11: in a non-batch run of push_h100_individual_prices that started to
\* publish, every selected asset has had its own publish attempt when the run
\* has ended, whatever happened to the other assets.
C11_EverySelectedAssetAttempted ==
    (/\ prog = "push_h100_individual_prices"
     /\ pc = "exit"
     /\ call.caller = "update_single_price")
        => \A k \in 1..Len(updates) : PublishAttempted(k)

(***************************************************************************)
(* Properties of the guard's runs.                                         *)
(***************************************************************************)
\* the guard's run has ended
GuardRunEnded == prog = "gpu_index_calculator" /\ pc = "exit" /\ invocations > 0

\* the last history price is positive: a first value of zero is a move of 100%
PositiveLastPrice == g.last_price # None /\ g.last_price > 0

\* the last HISTORY_WINDOW rows the run found hold a full price to average
AverageAvailable ==
    \E i \in 1..Len(history_before) :
        /\ i > Len(history_before) - HISTORY_WINDOW
        /\ ~IsNaN(history_before[i].full_index_price)

\* the three prices of the first computation, tagged with a source
FirstComputationEntry(source) ==
    [full_index_price |-> g.first_price,
     hyperscalers_only_price |-> IndexPrices(df).hyp,
     non_hyperscalers_only_price |-> IndexPrices(df).non,
     source |-> source]

\* C12 (as claimed): after an invalid first computation the Aggregator is not
\* invoked again and no deviation check reruns it: the run has one invocation.
C12_InvalidFirstGoesDirectlyToFallback ==
    (RunEntryAppended /\ InvalidPrice(g.first_price))
        => invocations = 1 /\ ~g.confirming

\* C12 (amended): after a first computation of zero the guard reruns the
\* Aggregator at once, then makes the deviation check, which reruns it a third
\* time exactly when the last history price is positive; the run then appends
\* the fallback average when one is available.
C12_InvalidFirstIsRecomputed ==
    (RunEntryAppended /\ InvalidPrice(g.first_price))
        => /\ invocations = (IF PositiveLastPrice THEN 3 ELSE 2)
           /\ g.confirming = PositiveLastPrice
           /\ g.full_price2 = g.first_price
           /\ AverageAvailable => Entry.source = "fallback_avg"

C12_Witness ==
    /\ GuardRunEnded
    /\ InvalidPrice(g.first_price)
    /\ invocations = 3
    /\ Entry.source = "fallback_avg"

\* C13 (as claimed): an invalid computation on an empty History Store appends
\* no entry with the invalid price and the run reports failure.
C13_NothingAppendedOnEmptyHistory ==
    (GuardRunEnded /\ InvalidPrice(g.first_price) /\ history_before = <<>>)
        => /\ \A i \in 1..Len(history) : ~InvalidPrice(history[i].full_index_price)
           /\ exit_code # 0

\* C13 (amended): an invalid computation on an empty History Store is kept:
\* after the recovery rerun the guard appends the computed prices with source
\* 'calculated' and the run ends with status 0.
C13_InvalidValueKeptOnEmptyHistory ==
    (GuardRunEnded /\ InvalidPrice(g.first_price) /\ history_before = <<>>)
        => /\ history = <<FirstComputationEntry("calculated")>>
           /\ invocations = 2
           /\ exit_code = 0

C13_Witness ==
    /\ GuardRunEnded
    /\ history_before = <<>>
    /\ history = <<FirstComputationEntry("calculated")>>
    /\ Entry.full_index_price = 0

\* the relative change of new against a positive old price is 50% or more
MovedAtOrAboveThreshold(new, old) ==
    /\ old # None /\ old > 0
    /\ 2 * (IF new >= old THEN new - old ELSE old - new) >= old

\* C14: when the first computation is valid and its relative change from the
\* last history full price is at or above 50%, the run invokes the Aggregator
\* exactly once more (two invocations in the run).
C14_ThresholdMoveRerunsOnce ==
    (/\ RunEntryAppended
     /\ ~InvalidPrice(g.first_price)
     /\ MovedAtOrAboveThreshold(g.first_price, g.last_price))
        => invocations = 2 /\ g.confirming

\* a run whose first value is exactly 50% below the last history price
C14_Witness ==
    /\ GuardRunEnded
    /\ ~InvalidPrice(g.first_price)
    /\ g.last_price = 2 * g.first_price
    /\ invocations = 2

\* C15 (as claimed): inside GitHub Actions, a run that ends with source
\* 'rerun' after a move at or above the threshold fires the trigger in its
\* trigger step (attempt_trigger_commit marks and commits), whatever earlier
\* runs left behind.
C15_ConfirmedMoveFiresTrigger ==
    [][(/\ prog = "gpu_index_calculator" /\ pc = "trigger" /\ pc' = "exit"
        /\ GITHUB_ACTIONS
        /\ g.final_source = "rerun"
        /\ MovedAtOrAboveThreshold(g.full_price, g.last_price))
           => (~marker /\ marker')]_vars

\* C16: the trigger fires (the marker is written, a trigger commit is pushed)
\* only in the trigger step of a run whose appended entry has source 'rerun'
\* and a full price at least 50% away from the last history price.
C16_TriggerOnlyOnConfirmedMove ==
    [][(marker' # marker \/ trigger_commits' # trigger_commits)
          => (/\ prog = "gpu_index_calculator" /\ pc = "trigger"
              /\ Entry.source = "rerun"
              /\ Entry.full_index_price = g.full_price
              /\ MovedAtOrAboveThreshold(Entry.full_index_price, g.last_price))]_vars

C16_Witness ==
    /\ GuardRunEnded
    /\ runs = 1
    /\ trigger_commits = 1
    /\ marker
    /\ Entry.source = "rerun"

\* C17: a run of the guard appends exactly one entry, tagged 'calculated',
\* 'rerun' or 'fallback_avg': until the append the history is the one the run
\* found, afterwards it is that history followed by the run's entry.
C17_OneEntryPerRun ==
    (prog = "gpu_index_calculator" /\ runs > 0)
        => IF pc \in {"trigger", "exit"}
           THEN /\ Len(history) = Len(history_before) + 1
                /\ SubSeq(history, 1, Len(history_before)) = history_before
                /\ Entry.source \in {"calculated", "rerun", "fallback_avg"}
                /\ Entry.source = g.final_source
           ELSE history = history_before

\* the second run of a sequence has appended its entry to a non-empty history
C17_Witness ==
    /\ GuardRunEnded
    /\ runs = 2
    /\ Len(history_before) >= 2
    /\ history = Append(history_before, Entry)

\* C18: gpu_index_history.csv is append-only under every operation: a step of
\* a guard run or of the recalculation leaves every entry of the history in
\* place and unchanged, and the recalculation writes its results elsewhere.
C18_HistoryAppendOnly ==
    [][/\ Len(history') >= Len(history)
       /\ \A i \in 1..Len(history) : history'[i] = history[i]
       /\ corrected_history' # corrected_history => history' = history]_vars

\* a recalculation between two guard runs: its results cover the history
\* of the first run, and the second run has appended since
C18_Witness ==
    /\ GuardRunEnded
    /\ runs = 2
    /\ corrected_history.exists
    /\ Len(corrected_history.rows) = Len(history_before)
    /\ Len(history) = Len(history_before) + 1
    /\ \E i \in 1..Len(corrected_history.rows) :
          corrected_history.rows[i].status = "success"

\* C19: when the first computation is valid and the history holds no prior
\* full price, or the relative change from the last one is below 50%, the run
\* invokes the Aggregator once and appends the three prices of that
\* computation with source 'calculated'.
C19_SmallMoveAcceptedAsCalculated ==
    (/\ RunEntryAppended
     /\ ~InvalidPrice(g.first_price)
     /\ \/ g.last_price = None
        \/ g.last_price > 0 /\ ~MovedAtOrAboveThreshold(g.first_price, g.last_price))
        => /\ invocations = 1
           /\ Entry = FirstComputationEntry("calculated")

\* a run whose first value is just less than 50% below the last history price
C19_Witness ==
    /\ GuardRunEnded
    /\ ~InvalidPrice(g.first_price)
    /\ g.last_price = 2 * g.first_price - 1
    /\ invocations = 1
    /\ Entry.source = "calculated"

\* the entries of the history the run found that carry a valid full price
IsValidEntry(row) == ~InvalidPrice(row.full_index_price)

ValidEntries == SelectSeq(history_before, IsValidEntry)

\* the last min(10, N) of the N valid entries
LastValidEntries ==
    IF Len(ValidEntries) <= 10 THEN ValidEntries
    ELSE SubSeq(ValidEntries, Len(ValidEntries) - 9, Len(ValidEntries))

MeanOfLastValidEntries ==
    SumOver(1..Len(LastValidEntries),
            [i \in 1..Len(LastValidEntries) |-> LastValidEntries[i].full_index_price])
        \div Len(LastValidEntries)

\* C20 (as claimed): when the computation of a run is invalid and the history
\* holds N >= 1 valid entries, the appended entry has source 'fallback_avg' and
\* its full price is the mean of the last min(10, N) valid full prices; zero
\* and NaN entries neither enter the mean nor shorten the window.
C20_FallbackIsMeanOfLastValidEntries ==
    (GuardRunEnded /\ InvalidPrice(g.first_price) /\ Len(ValidEntries) >= 1)
        => /\ Entry.source = "fallback_avg"
           /\ Entry.full_index_price = MeanOfLastValidEntries

(***************************************************************************)
(* Properties of the dry run.                                              *)
(***************************************************************************)
DryRun == prog = "push_to_contract" /\ args.dry_run

\* a price at or below 0 among the prices the dry run is given
DryRunPriceNotPositive ==
    IF Len(args.manual_prices) > 0
    THEN \E i \in 1..3 : ~IsNaN(args.manual_prices[i]) /\ args.manual_prices[i] <= 0
    ELSE /\ ~BadCsv(csv_file)
         /\ \E i \in 1..3 : /\ ~IsNaN(Last(csv_file.rows)[required_columns[i]])
                              /\ Last(csv_file.rows)[required_columns[i]] <= 0

\* C22: with --dry-run the publisher never reaches the ledger: it sends no
\* transaction (registration or price update), leaves the ledger as it was and
\* writes no audit-log entry, whatever the CSV, the manual prices and the other
\* flags; it exits 1 when the CSV cannot be read or a price is at or below 0,
\* and 0 otherwise.
C22_DryRunSubmitsNothing ==
    DryRun =>
        /\ txs = <<>>
        /\ call = NoCall
        /\ log = <<>>
        /\ tx_hash = NoTx
        /\ pc \in {"main", "register", "prices", "validate", "execute", "exit"}
        /\ pc = "exit" =>
              exit_code = (IF ReadsBadCsv \/ DryRunPriceNotPositive THEN 1 ELSE 0)

\* a dry run with --register, without a private key and with an unregistered
\* asset ended with status 0
C22_Witness ==
    /\ DryRun
    /\ pc = "exit" /\ exit_code = 0
    /\ args.register
    /\ ~PRIVATE_KEY
    /\ \E a \in Range(ASSET_IDS) : ~registered[a]

Computed == prog = "gpu_index_calculator" /\ pc \notin {"load", "first"}

\* the prices of the samples that contributed weight: the base price of each
\* hyperscaler used and the price of each other row used
ContributingPrices ==
    {base_price(df, hyperscaler_names[k]) : k \in HyperscalersUsed(df)}
      \cup {df[i].AvgNormalizedPrice : i \in OthersUsed(df)}

\* 400 times the effective price of each contributing sample: a hyperscaler's
\* base price counts with the part of it left after the discount
EffectivePrices400 ==
    {base_price(df, hyperscaler_names[k]) * EffectiveParts(hyperscalers(hyperscaler_names[k])) :
        k \in HyperscalersUsed(df)}
      \cup {df[i].AvgNormalizedPrice * 400 : i \in OthersUsed(df)}

Min(S) == CHOOSE x \in S : \A y \in S : x <= y

Max(S) == CHOOSE x \in S : \A y \in S : x >= y

\* C23 (as claimed): with contributing samples, the full index lies within
\* [min(price), max(price)] of the prices of the contributing samples.
C23_IndexWithinContributingPrices ==
    (Computed /\ ContributingPrices # {})
        => /\ Min(ContributingPrices) <= g.first_price
           /\ g.first_price <= Max(ContributingPrices)

\* C23 (amended): the full index lies within the smallest and the largest
\* effective price of the contributing samples, the effective price of a
\* hyperscaler being its price times (1 - buyers_getting_discount * discount).
C23_IndexWithinEffectivePrices ==
    (Computed /\ ContributingPrices # {})
        => /\ Min(EffectivePrices400) \div 400 <= g.first_price
           /\ g.first_price <= Max(EffectivePrices400) \div 400

\* an index below the price of every contributing sample
C23_Witness ==
    /\ Computed
    /\ Cardinality(ContributingPrices) >= 2
    /\ g.first_price < Min(ContributingPrices)
    /\ g.first_price >= Min(EffectivePrices400) \div 400

\* the module level has just loaded and filtered the table on disk
Loaded == prog = "gpu_index_calculator" /\ pc = "first"

OtherRows(t) == SelectSeq(t, IsOtherRow)

\* the weighted contribution of hyperscaler k computed from table t
HyperscalerContribution(t, k) ==
    hyperscalers(hyperscaler_names[k]).weight
      * base_price(t, hyperscaler_names[k])
      * EffectiveParts(hyperscalers(hyperscaler_names[k]))

\* table t without its row i
WithoutRow(t, i) == SubSeq(t, 1, i - 1) \o SubSeq(t, i + 1, Len(t))

\* the rows of the input that are samples of other providers above
\* Q3 + 2.5 * IQR of the other providers' prices
HighOutliers(t) ==
    {i \in 1..Len(t) :
        /\ IsOtherRow(t[i])
        /\ ~IsNaN(t[i].AvgNormalizedPrice)
        /\ 8 * t[i].AvgNormalizedPrice > upper_bound8(OtherRows(t), 5)}

\* C24: the filtered table keeps every hyperscaler row of the input whatever
\* its price; a row of another provider is kept exactly when its price is
\* within the bounds computed from the other providers' rows alone; and the
\* input without one of its high outliers gives the same contributing
\* hyperscalers with the same weighted contributions.
C24_FilterProtectsHyperscalers ==
    Loaded =>
        /\ SelectSeq(df, IsHyperscalerRow) = SelectSeq(provider_averages, IsHyperscalerRow)
        /\ OtherRows(df) =
              LET InBounds(row) ==
                      \/ IsNaN(row.AvgNormalizedPrice)
                      \/ /\ 8 * row.AvgNormalizedPrice
                               >= lower_bound8(OtherRows(provider_averages), 5)
                         /\ 8 * row.AvgNormalizedPrice
                               <= upper_bound8(OtherRows(provider_averages), 5)
              IN SelectSeq(OtherRows(provider_averages), InBounds)
        /\ HyperscalersUsed(df) = HyperscalersUsed(provider_averages)
        /\ \A i \in HighOutliers(provider_averages) :
              LET t == FilteredTable(WithoutRow(provider_averages, i)) IN
              /\ HyperscalersUsed(t) = HyperscalersUsed(df)
              /\ \A k \in HyperscalersUsed(df) :
                    HyperscalerContribution(t, k) = HyperscalerContribution(df, k)

\* the filter dropped a high outlier of the other providers and kept a
\* hyperscaler whose price is above the upper bound
C24_Witness ==
    /\ Loaded
    /\ HighOutliers(provider_averages) # {}
    /\ Len(df) < Len(provider_averages)
    /\ \E i \in 1..Len(df) :
          /\ IsHyperscalerRow(df[i])
          /\ ~IsNaN(df[i].AvgNormalizedPrice)
          /\ 8 * df[i].AvgNormalizedPrice > upper_bound8(OtherRows(provider_averages), 5)

\* the static price of a configured hyperscaler: the quoted (website) price,
\* else the research price, else NaN
StaticPrice(data) ==
    IF data.website_price # None THEN data.website_price
    ELSE IF data.research_price # None THEN data.research_price
    ELSE NaN

\* the rows of hyperscaler k in the filtered table
RowsOf(k) == {i \in 1..Len(df) : df[i].Provider = hyperscaler_names[k]}

\* C25 (as claimed): the effective price of hyperscaler k is a measured price
\* when the table has one, else its static price, whether or not the table
\* has a row for it
ClaimedEffectivePrice(k) ==
    IF \E i \in RowsOf(k) : ~IsNaN(df[i].AvgNormalizedPrice)
    THEN df[CHOOSE i \in RowsOf(k) :
               /\ ~IsNaN(df[i].AvgNormalizedPrice)
               /\ \A j \in RowsOf(k) : ~IsNaN(df[j].AvgNormalizedPrice) => i <= j
           ].AvgNormalizedPrice
    ELSE StaticPrice(hyperscalers(hyperscaler_names[k]))

\* C25 (amended): the effective price of hyperscaler k is the price of its
\* first row in the table when that is not NaN, else its static price;
\* without a row there is none
FirstRowEffectivePrice(k) ==
    IF RowsOf(k) = {} THEN NaN
    ELSE LET first == df[CHOOSE i \in RowsOf(k) : \A j \in RowsOf(k) : i <= j]
         IN IF ~IsNaN(first.AvgNormalizedPrice) THEN first.AvgNormalizedPrice
            ELSE StaticPrice(hyperscalers(hyperscaler_names[k]))

\* the hyperscalers-only index and the hyperscaler weight that follow from
\* the effective prices P[k] (NaN: no contribution)
HyperscalerIndexFrom(P) ==
    LET used == {k \in 1..Len(hyperscaler_names) : ~IsNaN(P[k])}
        weight == SumOver(used, [k \in used |-> hyperscalers(hyperscaler_names[k]).weight])
        weighted == SumOver(used, [k \in used |->
                        hyperscalers(hyperscaler_names[k]).weight * P[k]
                          * ((10000 - hyperscalers(hyperscaler_names[k]).buyers_getting_discount
                                        * hyperscalers(hyperscaler_names[k]).discount) \div 25)])
    IN [weight |-> weight,
        price |-> IF weight > 0 THEN weighted \div (weight * 400) ELSE 0]

\* the weight used that the calculation wrote to h100_gpu_index.csv, less the
\* weight of the other providers' rows used
HyperscalerWeightWritten ==
    Last(csv_file.rows)["Total_Weight_Percent"]
      - SumOver(OthersUsed(df), [i \in OthersUsed(df) |-> provider_weights(df[i].Provider)])

\* C25 (as claimed): every configured hyperscaler with a measured, quoted or
\* research price contributes its weight at that price, also when the table
\* has no row for it.
C25_StaticPriceUsedWithoutMeasurement ==
    Computed =>
        LET claimed == HyperscalerIndexFrom([k \in 1..Len(hyperscaler_names) |->
                                                ClaimedEffectivePrice(k)])
        IN /\ HyperscalerWeightWritten = claimed.weight
           /\ IndexPrices(df).hyp = claimed.price

\* C25 (amended): a hyperscaler contributes its weight exactly when the table
\* has a row for it and the first such row has a price or the hyperscaler has
\* a static price; its effective price is then that first row's price, else
\* the quoted price, else the research price.
C25_StaticPriceUsedForEmptyFirstRow ==
    Computed =>
        LET amended == HyperscalerIndexFrom([k \in 1..Len(hyperscaler_names) |->
                                                FirstRowEffectivePrice(k)])
        IN /\ HyperscalerWeightWritten = amended.weight
           /\ IndexPrices(df).hyp = amended.price
           /\ g.first_price # 0 => g.hyperscaler_price = amended.price

\* Microsoft Azure has a row without a price and contributes at its quoted
\* price, while Google Cloud has no row and contributes nothing
C25_Witness ==
    /\ Computed
    /\ RowsOf(2) # {} /\ FirstRowEffectivePrice(2) = hyperscalers("Microsoft Azure").website_price
    /\ RowsOf(3) = {} /\ 3 \notin HyperscalersUsed(df)
    /\ HyperscalerWeightWritten = 1828 + 2354

\* C26 (as claimed): the confirmatory recomputation is computed from the
\* provider table as it is on disk when the recomputation runs.
C26_RecomputationReadsChangedTable ==
    (prog = "gpu_index_calculator" /\ g.confirming)
        => g.full_price2 = IndexPrices(FilteredTable(provider_averages)).full

(***************************************************************************)
(* Further properties of the guard.                                        *)
(***************************************************************************)
\* C27: when the first price moved at or above the threshold and the
\* confirmatory recomputation returned a finite, non-zero full price, the
\* appended entry carries the three prices of the recomputation with source
\* 'rerun', and no fallback average was applied.
C27_ConfirmedMoveAppendsRerun ==
    (/\ RunEntryAppended
     /\ g.confirming
     /\ MovedAtOrAboveThreshold(g.first_price, g.last_price)
     /\ ~InvalidPrice(g.full_price2))
        => /\ Entry = [full_index_price |-> g.full_price2,
                       hyperscalers_only_price |-> IndexPrices(df).hyp,
                       non_hyperscalers_only_price |-> IndexPrices(df).non,
                       source |-> "rerun"]
           /\ g.final_source = "rerun"

\* a confirmed upward move of 50% or more was appended
C27_Witness ==
    /\ GuardRunEnded
    /\ g.confirming
    /\ ~InvalidPrice(g.full_price2)
    /\ g.last_price # None /\ g.last_price > 0
    /\ 2 * (g.first_price - g.last_price) >= g.last_price
    /\ Entry.source = "rerun"
    /\ Entry.full_index_price = g.full_price2

\* C28: significant_change(new, old) is false when old is absent or 0, and
\* for old > 0 it is true exactly when |new - old| / old >= 0.5 (a change of
\* exactly 50% counts, a smaller one does not): checked on the arguments of
\* its call in the confirm step, and on the rerun that follows from it.
C28_SignificantChangeAtThreshold ==
    /\ (prog = "gpu_index_calculator" /\ pc = "confirm") =>
          /\ g.last_price \in {None, 0} => ~significant_change(g.full_price, g.last_price)
          /\ (g.last_price # None /\ g.last_price > 0) =>
                (significant_change(g.full_price, g.last_price)
                   <=> 2 * (IF g.full_price >= g.last_price
                            THEN g.full_price - g.last_price
                            ELSE g.last_price - g.full_price) >= g.last_price)
    /\ (RunEntryAppended /\ g.last_price \in {None, 0}) => ~g.confirming
    /\ (RunEntryAppended /\ g.last_price # None /\ g.last_price > 0) =>
          (g.confirming
             <=> 2 * (IF g.first_price >= g.last_price
                      THEN g.first_price - g.last_price
                      ELSE g.last_price - g.first_price) >= g.last_price)

\* the call was made with a positive new price and a last price of 0
C28_Witness ==
    /\ GuardRunEnded
    /\ g.last_price = 0
    /\ g.first_price > 0
    /\ ~g.confirming
    /\ invocations = 1

(***************************************************************************)
(* Further properties of the aggregator.                                   *)
(***************************************************************************)
RECURSIVE HyperscalerLoop(_)
\* the running sums [weight, weighted (in 1/400)] after the hyperscaler loop
\* has handled the first k hyperscalers
HyperscalerLoop(k) ==
    IF k = 0 THEN [weight |-> 0, weighted |-> 0]
    ELSE LET before == HyperscalerLoop(k - 1) IN
         IF k \in HyperscalersUsed(df)
         THEN [weight |-> before.weight + hyperscalers(hyperscaler_names[k]).weight,
               weighted |-> before.weighted + HyperscalerContribution(df, k)]
         ELSE before

RECURSIVE OtherLoop(_)
\* the running sums after the loop over the rows has handled the first i rows
OtherLoop(i) ==
    IF i = 0 THEN [weight |-> 0, weighted |-> 0]
    ELSE LET before == OtherLoop(i - 1) IN
         IF i \in OthersUsed(df)
         THEN [weight |-> before.weight + provider_weights(df[i].Provider),
               weighted |-> before.weighted
                              + provider_weights(df[i].Provider) * df[i].AvgNormalizedPrice * 400]
         ELSE before

\* weighted sum / weight used, 0 without weight
PartitionIndex(sums) ==
    IF sums.weight = 0 THEN 0 ELSE sums.weighted \div (sums.weight * 400)

\* C29: each of the three indices the calculation returns and writes equals
\* the weighted sum divided by the weight used of its own partition, and is 0
\* when that weight is 0; the weight used and the weighted sum of the full
\* index are the sums of those of the two partitions.
C29_IndexIsPartitionMean ==
    Computed =>
        LET hyp == HyperscalerLoop(Len(hyperscaler_names))
            non == OtherLoop(Len(df))
            full == [weight |-> hyp.weight + non.weight,
                     weighted |-> hyp.weighted + non.weighted]
            written == Last(csv_file.rows)
        IN /\ written["Full_Index_Price"] = PartitionIndex(full)
           /\ written["Hyperscalers_Only_Price"] = PartitionIndex(hyp)
           /\ written["Non_Hyperscalers_Only_Price"] = PartitionIndex(non)
           /\ written["Total_Weight_Percent"] = full.weight
           /\ g.first_price = PartitionIndex(full)

\* without hyperscaler weight the hyperscalers-only index is 0 and the full
\* index is the non-hyperscalers-only index
C29_Witness ==
    /\ Computed
    /\ HyperscalerLoop(Len(hyperscaler_names)).weight = 0
    /\ OtherLoop(Len(df)).weight > 0
    /\ Last(csv_file.rows)["Hyperscalers_Only_Price"] = 0
    /\ Last(csv_file.rows)["Full_Index_Price"] = Last(csv_file.rows)["Non_Hyperscalers_Only_Price"]
    /\ g.first_price > 0

(***************************************************************************)
(* Properties of the database pusher.                                      *)
(***************************************************************************)
\* push_to_database returned its two counters to main
PushReturned == prog = "autorun" /\ pc = "exit" /\ pusher.failed_count # None

\* the requests sent for market m, each with its outcome, in order
Posts(m) == pusher.posts[m]

\* at most MAX_RETRIES requests for market m and none after the first 200
RetriesBounded(m) ==
    /\ Len(Posts(m)) <= MAX_RETRIES
    /\ \A i \in 1..(Len(Posts(m)) - 1) : Posts(m)[i] # "200"

\* C30 as stated: push_to_database sends each configured market at most
\* MAX_RETRIES requests and none after the first HTTP 200, counts every
\* configured market once, so that success_count + failed_count is the number
\* of configured markets, and outside a dry run the process exits non-zero
\* if and only if failed_count > 0.
C30_PushCountsEveryConfiguredMarket ==
    /\ prog = "autorun" => \A m \in MARKETS : RetriesBounded(m)
    /\ PushReturned =>
          pusher.success_count + pusher.failed_count = Cardinality(MARKETS)
    /\ (prog = "autorun" /\ pc = "exit" /\ ~args.dry_run) =>
          (exit_code # 0 <=> (PushReturned /\ pusher.failed_count > 0))

\* C30, amended: autorun.py terminates for every sequence of HTTP outcomes;
\* push_to_database sends each market at most MAX_RETRIES requests, none
\* after the first HTTP 200 and none in a dry run, and counts once, as a
\* success (a 200 was received) or as a failure (MAX_RETRIES requests, no
\* 200), every market whose oracle price was fetched, so that success_count +
\* failed_count is the number of fetched prices; outside a dry run the process
\* exits non-zero if and only if failed_count > 0 or push_to_database did
\* not return (no connection, no price fetched, block number not read).
C30_PushCountsEveryFetchedMarket ==
    /\ [](prog = "autorun" =>
            /\ \A m \in MARKETS : RetriesBounded(m)
            /\ args.dry_run => \A m \in MARKETS : Posts(m) = <<>>
            /\ \A m \in MARKETS \ DOMAIN prices : Posts(m) = <<>>
            /\ pc = "loop" => pusher.success_count + pusher.failed_count = idx - 1
            /\ PushReturned =>
                  /\ pusher.success_count + pusher.failed_count
                        = Cardinality(DOMAIN prices)
                  /\ ~args.dry_run =>
                        /\ pusher.success_count =
                              Cardinality({m \in MARKETS :
                                  Posts(m) # <<>> /\ Last(Posts(m)) = "200"})
                        /\ pusher.failed_count =
                              Cardinality({m \in MARKETS :
                                  /\ Len(Posts(m)) = MAX_RETRIES
                                  /\ Last(Posts(m)) # "200"})
            /\ (pc = "exit" /\ ~args.dry_run) =>
                  /\ exit_code \in {0, 1}
                  /\ exit_code # 0 <=> (~PushReturned \/ pusher.failed_count > 0))
    /\ <>(prog = "autorun" /\ pc = "exit")

\* a market without oracle price is left out, one succeeds at its third
\* attempt and one fails three times: two markets counted, exit status 1
C30_Witness ==
    /\ PushReturned /\ ~args.dry_run
    /\ DOMAIN prices = {"H100_HOURLY", "H100_NON_HYPERSCALERS_HOURLY"}
    /\ Posts("H100_HOURLY") = <<"500", "Timeout", "200">>
    /\ Posts("H100_NON_HYPERSCALERS_HOURLY") = <<"Timeout", "RequestException", "500">>
    /\ pusher.success_count = 1 /\ pusher.failed_count = 1
    /\ exit_code = 1

====
